---- MODULE Spec2Model ----
(***************************************************************************)
(* Model of the crawler (cheolwanpark/meows, crawler/).                    *)
(*                                                                         *)
(*   Spec       the orchestrator of main.rs: building the sources, the     *)
(*              stream::iter(..).map(..).buffered(n).try_collect() pool,   *)
(*              flattening and the output call.                            *)
(*   SpecRetry  SemanticScholarClient::fetch_with_retry.                   *)
(*   SpecReddit RedditClient::fetch_posts.                                 *)
(*                                                                         *)
(* Each specification moves its own variables and leaves the others at     *)
(* their idle value.                                                       *)
(***************************************************************************)
EXTENDS Integers, Sequences, FiniteSets, TLC

(***************************************************************************)
(* Bounds of the model.                                                    *)
(***************************************************************************)
MaxEntries == 3        \* entries of config.sources
MaxConcurrency == 2    \* largest crawler.max_concurrency drawn
MaxFetchRequests == 1  \* HTTP requests one abstract fetch may issue
MaxRedditRequests == 2 \* page requests of one fetch_posts call
MaxPageLen == 2        \* children of one listing page
MaxLimit == 2          \* largest RedditConfig.limit drawn
MaxTotal == 4          \* longest listing a paging provider holds
MaxPageSize == 2       \* largest page size of a paging provider
MaxListingLimit == 3   \* largest limit drawn against a paging provider
MaxResults == 2        \* largest SemanticScholarConfig.max_results drawn
MaxResponsePapers == 3 \* papers of one search or recommendations response
MaxPapers == 3         \* papers handed to convert_and_filter on its own
MaxItems == 2          \* items of a list handed to the keyword filter
MaxKeywords == 2       \* keywords of a SourceFilters
MaxRetains == 2        \* times the keyword filter is run over one list
MaxConcRequests == 2   \* page requests of each of the concurrent fetches
MaxSearchCalls == 3     \* calls followed in a search for more than a page
MaxJsonLen == 3        \* length of the JSON text handed to write_to_file

VARIABLES
    \* ---- orchestrator (main.rs) ----
    config_sources,    \* config.sources: sequence of SourceEntry
    max_concurrency,   \* config.crawler.max_concurrency
    pc,                \* position of main
    build_idx,         \* position of the into_iter() over config.sources
    sources,           \* Vec<Box<dyn Source>>: entry indices, in build order
    next_source,       \* position of stream::iter(sources)
    status,            \* per entry: state of its fetch future
    fetch_result,      \* per entry: what its fetch returned
    requests,          \* per entry: HTTP requests its fetch has issued
    all_results,       \* accumulator of try_collect: the lists yielded Ok
    result,            \* Result<()> of main
    written,           \* sequence handed to output::write_json
    write_calls,       \* number of calls of output::write_json
    completion,        \* history: entries in the order their fetch returned
    \* ---- SemanticScholarClient::fetch_with_retry ----
    retry_pc,          \* "idle", "send", "sleep" or "done"
    attempt,           \* the local `attempt`
    retry_sleeps,      \* history: the delays slept, in ms
    retry_statuses,    \* history: the status of every request sent (0: no response)
    retry_bodies,      \* history: the body of every response ("": none)
    retry_headers,     \* history: the Retry-After header of every response
    retry_result,      \* what the call returned
    \* ---- RedditClient::fetch_posts ----
    reddit_pc,         \* "idle", "request", "sleep" or "done"
    reddit_config,     \* self.config: limit, min_score, min_comments, delay
    all_contents,      \* the accumulator
    after,             \* the pagination token (0: None)
    served,            \* history: number of posts the provider has sent
    provided,          \* history: the posts the provider has sent, as Content
    listing,           \* provider: the listing it pages through
    page_size,         \* provider: the length of its full pages
    reddit_log,        \* history: the requests sent and the sleeps, in order
    reddit_result,     \* what fetch_posts returned
    \* ---- SemanticScholarClient::fetch_search_papers, fetch_recommendations ----
    ss_pc,             \* "idle", "loop", "call", "await", "sleep", "convert", "done"
    ss_config,         \* self.config: mode, max_results, min_citations, delay
    all_papers,        \* the accumulator (search), `papers` (recommendations)
    offset,            \* the local `offset`
    ss_received,       \* history: the papers of every response, in order
    ss_log,            \* history: the calls of fetch_with_retry, pages, sleeps
    last_retries,      \* history: the retries of the latest call that returned
    ss_result,         \* what the fetch returned
    \* ---- SourceFilters and the retain of Source::fetch ----
    keywords,          \* SourceFilters.keywords
    match_mode,        \* SourceFilters.match_mode: "any" or "all"
    fetch_contents,    \* the `contents` of fetch: the list retain works on
    retained,          \* history: the list after every retain, in order
    \* ---- two fetches polled by buffered(): the locals of each ----
    c_pc,              \* per fetch: "idle", "request", "sleep" or "done"
    c_config,          \* per fetch: self.config of its RedditClient
    c_contents,        \* per fetch: its `all_contents`
    c_after,           \* per fetch: its `after`
    c_provided,        \* history, per fetch: the posts its provider has sent
    c_requests,        \* history, per fetch: the requests it has sent
    c_result,          \* per fetch: what its fetch returned
    \* ---- output::write_to_file ----
    w_pc,              \* "idle", "create", "write", "sync", "persist" or "done"
    w_path,            \* the argument `path`
    w_json,            \* the argument `json`
    dest,              \* file system: the content at `path` (Absent: no file)
    dest_before,       \* history: the content at `path` before the call
    temp_file,         \* the NamedTempFile: directory, content, synced
    renamed_from,      \* history: the temporary file as it was renamed
    w_result,          \* what write_to_file returned
    \* ---- Config::from_str and the head of main ----
    v_pc,              \* "idle", "validate", "sources", "cli", "build", "done"
    v_config,          \* the Config parsed from stdin
    v_idx,             \* the index of the loop over self.sources (0-based)
    v_result,          \* "none", "ok" (of from_str), or the error of the run
    adapters_built,    \* history: the number of build_source calls
    \* ---- SemanticScholarClient::paper_to_content on one paper ----
    m_pc,              \* "idle", "call" or "done"
    m_paper,           \* the argument `paper`
    overflow_checks,   \* whether the build checks integer overflow
    m_result,          \* "none", "content" or "panic"
    m_content          \* the Content returned

orch_vars == <<config_sources, max_concurrency, pc, build_idx, sources,
               next_source, status, fetch_result, requests, all_results,
               result, written, write_calls, completion>>

retry_vars == <<retry_pc, attempt, retry_sleeps, retry_statuses, retry_bodies,
               retry_headers,
                retry_result>>

reddit_vars == <<reddit_pc, reddit_config, all_contents, after, served,
                 provided, listing, page_size, reddit_log, reddit_result>>

ss_vars == <<ss_pc, ss_config, all_papers, offset, ss_received, ss_log,
            last_retries,
             ss_result>>

filter_vars == <<keywords, match_mode, fetch_contents, retained>>

conc_vars == <<c_pc, c_config, c_contents, c_after, c_provided, c_requests,
               c_result>>

file_vars == <<w_pc, w_path, w_json, dest, dest_before, temp_file,
               renamed_from, w_result>>

validate_vars == <<v_pc, v_config, v_idx, v_result, adapters_built>>

mapping_vars == <<m_pc, m_paper, overflow_checks, m_result, m_content>>

aux_vars == <<filter_vars, conc_vars, file_vars, validate_vars, mapping_vars>>

vars == <<orch_vars, retry_vars, reddit_vars, ss_vars, aux_vars>>

(***************************************************************************)
(* Values                                                                  *)
(***************************************************************************)
Subreddits == {"", "rust"}
UserAgents == {"", "crawler/0.1.0"}

SourceEntry == [enabled : BOOLEAN, subreddit : Subreddits, user_agent : UserAgents]

\* lists of Content a fetch may return
ItemLists == {<<>>, <<"a">>, <<"b", "a">>}

Pending == [kind |-> "pending", items |-> <<>>]
FetchOk(items) == [kind |-> "ok", items |-> items]
FetchErr == [kind |-> "err", items |-> <<>>]

Running == [kind |-> "running", source |-> 0, msg |-> ""]
MainOk == [kind |-> "ok", source |-> 0, msg |-> ""]
MainErr(kind, source, msg) == [kind |-> kind, source |-> source, msg |-> msg]

Entries == 1..Len(config_sources)

\* variant: the user agent is not checked
RedditClientNewNoUserAgentCheck(config) ==
    IF config.subreddit = "" THEN "subreddit cannot be empty" ELSE ""

\* RedditClient::new: Ok ("") or the message of the bail!
RedditClientNew(config) ==
    IF config.subreddit = "" THEN "subreddit cannot be empty"
    ELSE IF config.user_agent = "" THEN "user_agent cannot be empty"
    ELSE ""

\* build_source: the only variant main.rs builds is Reddit
build_source(config) == RedditClientNew(config)

\* idle values of the adapter variables
NoResult == [kind |-> "none", status |-> 0, body |-> ""]

RetryIdle ==
    /\ retry_pc = "idle"
    /\ attempt = 0
    /\ retry_sleeps = <<>>
    /\ retry_statuses = <<>>
    /\ retry_bodies = <<>>
    /\ retry_headers = <<>>
    /\ retry_result = NoResult

RedditIdle ==
    /\ reddit_pc = "idle"
    /\ reddit_config = [limit |-> 1, min_score |-> 0, min_comments |-> 0,
                        rate_limit_delay_ms |-> 1000]
    /\ all_contents = <<>>
    /\ after = 0
    /\ served = 0
    /\ provided = <<>>
    /\ listing = <<>>
    /\ page_size = 1
    /\ reddit_log = <<>>
    /\ reddit_result = NoResult

NoPapers == [kind |-> "none", contents |-> <<>>]

ScholarIdle ==
    /\ ss_pc = "idle"
    /\ ss_config = [mode |-> "search", max_results |-> 1, min_citations |-> 0,
                    rate_limit_delay_ms |-> 1000]
    /\ all_papers = <<>>
    /\ offset = 0
    /\ ss_received = <<>>
    /\ ss_log = <<>>
    /\ last_retries = 0
    /\ ss_result = NoPapers

FilterIdle ==
    /\ keywords = <<>>
    /\ match_mode = "any"
    /\ fetch_contents = <<>>
    /\ retained = <<>>

\* the fetches polled together
Fetchers == {1, 2}

ConcIdle ==
    /\ c_pc = [i \in Fetchers |-> "idle"]
    /\ c_config = [i \in Fetchers |-> [limit |-> 1, min_score |-> 0]]
    /\ c_contents = [i \in Fetchers |-> <<>>]
    /\ c_after = [i \in Fetchers |-> 0]
    /\ c_provided = [i \in Fetchers |-> <<>>]
    /\ c_requests = [i \in Fetchers |-> 0]
    /\ c_result = [i \in Fetchers |-> [kind |-> "none", items |-> <<>>]]

Absent == <<"absent">>
NoTemp == [dir |-> "", data |-> <<>>, synced |-> FALSE, exists |-> FALSE]

FileIdle ==
    /\ w_pc = "idle"
    /\ w_path = "out.json"
    /\ w_json = <<>>
    /\ dest = Absent
    /\ dest_before = Absent
    /\ temp_file = NoTemp
    /\ renamed_from = NoTemp
    /\ w_result = "none"

NoConfig ==
    [user_agent |-> "", max_concurrency |-> 0, log_level |-> "",
     output_destination |-> "", sources |-> <<>>]

ValidateIdle ==
    /\ v_pc = "idle"
    /\ v_config = NoConfig
    /\ v_idx = 0
    /\ v_result = "none"
    /\ adapters_built = 0

NoPaper ==
    [paper_id |-> 0, title |-> <<>>, abstract_text |-> <<>>, year |-> <<>>,
     citation_count |-> <<>>, authors |-> <<>>]

NoContent ==
    [id |-> 0, title |-> <<>>, body |-> <<>>, author |-> "",
     created_utc |-> [neg |-> FALSE, digits |-> <<>>], score |-> 0,
     num_comments |-> 0]

MappingIdle ==
    /\ m_pc = "idle"
    /\ m_paper = NoPaper
    /\ overflow_checks = FALSE
    /\ m_result = "none"
    /\ m_content = NoContent

AuxIdle ==
    FilterIdle /\ ConcIdle /\ FileIdle /\ ValidateIdle /\ MappingIdle

(***************************************************************************)
(* main, lines 80-102: build the sources                                   *)
(***************************************************************************)
BuildSource ==
    /\ pc = "build"
    /\ build_idx <= Len(config_sources)
    /\ LET entry == config_sources[build_idx]
           err == build_source(entry)
       IN  IF ~entry.enabled
           THEN /\ build_idx' = build_idx + 1
                /\ UNCHANGED <<sources, pc, result>>
           ELSE IF err = ""
           THEN /\ build_idx' = build_idx + 1
                /\ sources' = Append(sources, build_idx)
                /\ UNCHANGED <<pc, result>>
           ELSE /\ result' = MainErr("build_error", build_idx, err)
                /\ pc' = "done"
                /\ UNCHANGED <<build_idx, sources>>
    /\ UNCHANGED <<config_sources, max_concurrency, next_source, status,
                   fetch_result, requests, all_results, written, write_calls,
                   completion>>
    /\ UNCHANGED <<retry_vars, reddit_vars, ss_vars, aux_vars>>

BuildDone ==
    /\ pc = "build"
    /\ build_idx > Len(config_sources)
    /\ IF sources = <<>>
       THEN /\ result' = MainErr("no_sources", 0,
                                 "No enabled sources found in configuration")
            /\ pc' = "done"
       ELSE /\ pc' = "fill"
            /\ UNCHANGED result
    /\ UNCHANGED <<config_sources, max_concurrency, build_idx, sources,
                   next_source, status, fetch_result, requests, all_results,
                   written, write_calls, completion>>
    /\ UNCHANGED <<retry_vars, reddit_vars, ss_vars, aux_vars>>

(***************************************************************************)
(* main, lines 106-119: Buffered over FuturesOrdered, driven by try_collect*)
(***************************************************************************)
InFlight == {i \in Entries : status[i] = "in_progress"}
Queued == {i \in Entries : status[i] = "queued"}

\* variant: a finished fetch no longer counts, its slot is free at once
InProgressQueueLenInFlightOnly == Cardinality(InFlight)

\* FuturesOrdered::len(): futures in progress plus queued outputs
InProgressQueueLen == Cardinality(InFlight) + Cardinality(Queued)

\* variant: the comparison off by one
BufferedHasRoomOffByOne == InProgressQueueLen <= max_concurrency

\* Buffered::poll_next: `while in_progress_queue.len() < max`
BufferedHasRoom == InProgressQueueLen < max_concurrency

\* variant: the stream ends one source early
StreamExhaustedOneEarly == next_source >= Len(sources)

\* stream::iter(sources) has returned None
StreamExhausted == next_source > Len(sources)

\* the loop body: pull the next future from the stream and push it
BufferedFill ==
    /\ pc = "fill"
    /\ BufferedHasRoom
    /\ ~StreamExhausted
    /\ status' = [status EXCEPT ![sources[next_source]] = "in_progress"]
    /\ next_source' = next_source + 1
    /\ UNCHANGED <<config_sources, max_concurrency, pc, build_idx, sources,
                   fetch_result, requests, all_results, result, written,
                   write_calls, completion>>
    /\ UNCHANGED <<retry_vars, reddit_vars, ss_vars, aux_vars>>

\* variant: an `if` in place of the `while`, the loop may end with room left
BufferedFillEndEarly ==
    /\ pc = "fill"
    /\ pc' = "poll"
    /\ UNCHANGED <<config_sources, max_concurrency, build_idx, sources,
                   next_source, status, fetch_result, requests, all_results,
                   result, written, write_calls, completion>>
    /\ UNCHANGED <<retry_vars, reddit_vars, ss_vars, aux_vars>>

\* the loop ends: the queue is full or the stream returned None
BufferedFillEnd ==
    /\ pc = "fill"
    /\ ~(BufferedHasRoom /\ ~StreamExhausted)
    /\ pc' = "poll"
    /\ UNCHANGED <<config_sources, max_concurrency, build_idx, sources,
                   next_source, status, fetch_result, requests, all_results,
                   result, written, write_calls, completion>>
    /\ UNCHANGED <<retry_vars, reddit_vars, ss_vars, aux_vars>>

\* FuturesOrdered: the output with index next_outgoing_index is the only one
\* that may leave the queue
NextOutgoing == sources[Len(all_results) + 1]

\* variant: buffer_unordered, any queued output may leave
ReadyToYieldAnyOrder(i) == status[i] = "queued"

ReadyToYield(i) ==
    /\ Len(all_results) < Len(sources)
    /\ i = NextOutgoing
    /\ status[i] = "queued"

HeadReady == \E i \in Entries : ReadyToYield(i)

\* a fetch in progress is polled and issues an HTTP request
FetchRequest(i) ==
    /\ pc = "poll"
    /\ ~HeadReady
    /\ status[i] = "in_progress"
    /\ requests[i] < MaxFetchRequests
    /\ requests' = [requests EXCEPT ![i] = @ + 1]
    /\ UNCHANGED <<config_sources, max_concurrency, pc, build_idx, sources,
                   next_source, status, fetch_result, all_results, result,
                   written, write_calls, completion>>
    /\ UNCHANGED <<retry_vars, reddit_vars, ss_vars, aux_vars>>

\* a fetch in progress is polled and returns r; FuturesOrdered queues it.
\* The output of the head leaves in the same poll; any other output waits
\* and the next poll_next starts again at the loop that fills the queue.
FetchReturn(i, r) ==
    /\ pc = "poll"
    /\ ~HeadReady
    /\ status[i] = "in_progress"
    /\ requests[i] >= 1
    /\ status' = [status EXCEPT ![i] = "queued"]
    /\ fetch_result' = [fetch_result EXCEPT ![i] = r]
    /\ completion' = Append(completion, i)
    /\ pc' = IF i = NextOutgoing THEN "poll" ELSE "fill"
    /\ UNCHANGED <<config_sources, max_concurrency, build_idx, sources,
                   next_source, requests, all_results, result, written,
                   write_calls>>
    /\ UNCHANGED <<retry_vars, reddit_vars, ss_vars, aux_vars>>

\* variant: an Err does not drop the stream, the futures in it keep running
TryCollectYieldDrain(i) ==
    /\ pc = "poll"
    /\ ReadyToYield(i)
    /\ IF fetch_result[i].kind = "ok"
       THEN /\ all_results' = Append(all_results, fetch_result[i].items)
            /\ pc' = "fill"
            /\ UNCHANGED result
       ELSE /\ result' = MainErr("fetch_error", i, "Failed to fetch from sources")
            /\ pc' = "done"
            /\ UNCHANGED all_results
    /\ status' = [status EXCEPT ![i] = "yielded"]
    /\ UNCHANGED <<config_sources, max_concurrency, build_idx, sources,
                   next_source, fetch_result, requests, written, write_calls,
                   completion>>
    /\ UNCHANGED <<retry_vars, reddit_vars, ss_vars, aux_vars>>

\* variant: the first Err is remembered and the stream is polled on
TryCollectYieldKeepPolling(i) ==
    /\ pc = "poll"
    /\ ReadyToYield(i)
    /\ all_results' = Append(all_results, fetch_result[i].items)
    /\ result' = IF fetch_result[i].kind = "err" /\ result = Running
                 THEN MainErr("fetch_error", i, "Failed to fetch from sources")
                 ELSE result
    /\ status' = [status EXCEPT ![i] = "yielded"]
    /\ pc' = "fill"
    /\ UNCHANGED <<config_sources, max_concurrency, build_idx, sources,
                   next_source, fetch_result, requests, written, write_calls,
                   completion>>
    /\ UNCHANGED <<retry_vars, reddit_vars, ss_vars, aux_vars>>

\* variant: collect only the Ok results (a partial-success mode)
TryCollectYieldSkipErrors(i) ==
    /\ pc = "poll"
    /\ ReadyToYield(i)
    /\ all_results' = Append(all_results, fetch_result[i].items)
    /\ status' = [status EXCEPT ![i] = "yielded"]
    /\ pc' = "fill"
    /\ UNCHANGED <<config_sources, max_concurrency, build_idx, sources,
                   next_source, fetch_result, requests, result, written,
                   write_calls, completion>>
    /\ UNCHANGED <<retry_vars, reddit_vars, ss_vars, aux_vars>>

\* Buffered yields the head output to try_collect: Ok extends the
\* accumulator and the stream is polled again; Err ends try_collect, the
\* stream is dropped with every future still in it, and `?` leaves main
TryCollectYield(i) ==
    /\ pc = "poll"
    /\ ReadyToYield(i)
    /\ IF fetch_result[i].kind = "ok"
       THEN /\ all_results' = Append(all_results, fetch_result[i].items)
            /\ status' = [status EXCEPT ![i] = "yielded"]
            /\ pc' = "fill"
            /\ UNCHANGED result
       ELSE /\ result' = MainErr("fetch_error", i, "Failed to fetch from sources")
            /\ status' = [j \in Entries |->
                             IF j = i THEN "yielded"
                             ELSE IF status[j] = "in_progress" THEN "dropped"
                             ELSE status[j]]
            /\ pc' = "done"
            /\ UNCHANGED all_results
    /\ UNCHANGED <<config_sources, max_concurrency, build_idx, sources,
                   next_source, fetch_result, requests, written, write_calls,
                   completion>>
    /\ UNCHANGED <<retry_vars, reddit_vars, ss_vars, aux_vars>>

\* the queue is empty and the stream is done: try_collect returns Ok
TryCollectDone ==
    /\ pc = "poll"
    /\ InProgressQueueLen = 0
    /\ StreamExhausted
    /\ pc' = "write"
    /\ UNCHANGED <<config_sources, max_concurrency, build_idx, sources,
                   next_source, status, fetch_result, requests, all_results,
                   result, written, write_calls, completion>>
    /\ UNCHANGED <<retry_vars, reddit_vars, ss_vars, aux_vars>>

(***************************************************************************)
(* main, lines 121-138: flatten and write                                  *)
(***************************************************************************)
RECURSIVE Flatten(_)
Flatten(lists) ==
    IF lists = <<>> THEN <<>> ELSE Head(lists) \o Flatten(Tail(lists))

WriteJson(write_ok) ==
    /\ pc = "write"
    /\ written' = Flatten(all_results)
    /\ write_calls' = write_calls + 1
    /\ result' = IF write_ok THEN MainOk
                 ELSE MainErr("write_error", 0, "Failed to write output")
    /\ pc' = "done"
    /\ UNCHANGED <<config_sources, max_concurrency, build_idx, sources,
                   next_source, status, fetch_result, requests, all_results,
                   completion>>
    /\ UNCHANGED <<retry_vars, reddit_vars, ss_vars, aux_vars>>

(***************************************************************************)
(* Specification of the orchestrator: main from line 80 on.  config.sources*)
(* ranges over every SourceEntry value, also those RedditClient::new       *)
(* rejects; max_concurrency is at least 1 (buffered(0) never polls).       *)
(***************************************************************************)
Init ==
    /\ config_sources \in [1..MaxEntries -> SourceEntry]
    /\ max_concurrency \in 1..MaxConcurrency
    /\ pc = "build"
    /\ build_idx = 1
    /\ sources = <<>>
    /\ next_source = 1
    /\ status = [i \in 1..MaxEntries |-> "none"]
    /\ fetch_result = [i \in 1..MaxEntries |-> Pending]
    /\ requests = [i \in 1..MaxEntries |-> 0]
    /\ all_results = <<>>
    /\ result = Running
    /\ written = <<>>
    /\ write_calls = 0
    /\ completion = <<>>
    /\ RetryIdle
    /\ RedditIdle
    /\ ScholarIdle
    /\ AuxIdle

Next ==
    \/ BuildSource
    \/ BuildDone
    \/ BufferedFill
    \/ BufferedFillEnd
    \/ \E i \in Entries : FetchRequest(i)
    \/ \E i \in Entries : \E items \in ItemLists : FetchReturn(i, FetchOk(items))
    \/ \E i \in Entries : FetchReturn(i, FetchErr)
    \/ \E i \in Entries : TryCollectYield(i)
    \/ TryCollectDone
    \/ \E write_ok \in BOOLEAN : WriteJson(write_ok)

Spec == Init /\ [][Next]_vars

\* the run under fairness: every step that can be taken is taken in the end
\* (a started fetch goes on to its return, the stream is polled again).
\* Each fetch returns one list or an error; the user agent is well-formed.
InitRun ==
    /\ Init
    /\ \A i \in Entries : config_sources[i].user_agent = "crawler/0.1.0"

NextRun ==
    \/ BuildSource
    \/ BuildDone
    \/ BufferedFill
    \/ BufferedFillEnd
    \/ \E i \in Entries : FetchRequest(i)
    \/ \E i \in Entries : FetchReturn(i, FetchOk(<<"a">>))
    \/ \E i \in Entries : FetchReturn(i, FetchErr)
    \/ \E i \in Entries : TryCollectYield(i)
    \/ TryCollectDone
    \/ \E write_ok \in BOOLEAN : WriteJson(write_ok)

SpecRunFair == InitRun /\ [][NextRun]_vars /\ WF_vars(NextRun)

(***************************************************************************)
(* Properties of the orchestrator                                          *)
(***************************************************************************)
Failed == {i \in Entries : fetch_result[i].kind = "err"}

\* the fetch that returned a fatal error first in time (0: none)
RECURSIVE FirstFailedIn(_)
FirstFailedIn(order) ==
    IF order = <<>> THEN 0
    ELSE IF fetch_result[Head(order)].kind = "err" THEN Head(order)
    ELSE FirstFailedIn(Tail(order))

FirstFailedInTime == FirstFailedIn(completion)

Built == {sources[k] : k \in 1..Len(sources)}
Unstarted == {i \in Built : status[i] = "none"}

MinOf(S) == CHOOSE m \in S : \A n \in S : m <= n

\* C1: the number of fetches started and not yet finished never exceeds
\* max_concurrency.
C1_ConcurrencyCeiling == Cardinality(InFlight) <= max_concurrency

C1_Witness ==
    /\ max_concurrency = 2
    /\ Cardinality(InFlight) = 2
    /\ Unstarted # {}
    /\ \A i \in InFlight : requests[i] >= 1

\* C37: the fetches in flight and the fetches that finished but whose
\* result has not been consumed never number more than max_concurrency
\* together; while a finished fetch waits for a source declared before it,
\* it keeps its slot and no source is started in its place.
C37_SlotHeldUntilConsumed ==
    /\ Cardinality(InFlight) + Cardinality(Queued) <= max_concurrency
    /\ (pc = "poll" /\ Queued # {} /\ Unstarted # {}) =>
           Cardinality(InFlight) = max_concurrency - Cardinality(Queued)

\* the second source has finished while the first is still in flight: the
\* third waits although only one fetch is running
C37_Witness ==
    /\ max_concurrency = 2
    /\ pc = "poll"
    /\ status[1] = "in_progress"
    /\ status[2] = "queued"
    /\ status[3] = "none"
    /\ 3 \in Built
    /\ requests[1] >= 1

\* the times source i was handed to the queue of results
TimesCompleted(i) ==
    Cardinality({n \in 1..Len(completion) : completion[n] = i})

\* C38: with max_concurrency >= 1 and every started fetch returning, the
\* run ends. A fetch is started only for a source that was never started,
\* and when the run has ended with success every enabled source was started,
\* returned once and was collected, and no disabled source was started or
\* issued a request.
C38_RunEndsEachSourceOnce ==
    /\ (max_concurrency >= 1 => <>(pc = "done"))
    /\ [][\A i \in Entries :
             /\ (status[i] # "in_progress" /\ status'[i] = "in_progress")
                    => status[i] = "none"
             /\ status[i] # "none" => status'[i] # "none"]_vars
    /\ [](result = MainOk =>
            \A i \in Entries :
                IF config_sources[i].enabled
                THEN /\ status[i] = "yielded"
                     /\ requests[i] >= 1
                     /\ TimesCompleted(i) = 1
                     /\ fetch_result[i].kind = "ok"
                ELSE /\ status[i] = "none"
                     /\ requests[i] = 0
                     /\ TimesCompleted(i) = 0
                     /\ fetch_result[i] = Pending)

\* a successful run of two enabled sources around a disabled one, one
\* fetch at a time
C38_Witness ==
    /\ pc = "done"
    /\ result = MainOk
    /\ max_concurrency = 1
    /\ config_sources[1].enabled
    /\ ~config_sources[2].enabled
    /\ config_sources[3].enabled
    /\ completion = <<1, 3>>
    /\ written = <<"a", "a">>

\* what the sources returned, concatenated in declaration order
RECURSIVE ReturnedFrom(_)
ReturnedFrom(k) ==
    IF k > Len(sources) THEN <<>>
    ELSE fetch_result[sources[k]].items \o ReturnedFrom(k + 1)

\* C2: the sequence handed to the writer is the concatenation of the
\* sources' returned lists in declaration order, each list in the order the
\* adapter returned it, whatever the completion order.
C2_OutputInDeclarationOrder ==
    write_calls > 0 => written = ReturnedFrom(1)

C2_Witness ==
    /\ write_calls = 1
    /\ Len(sources) >= 2
    /\ completion[1] = sources[2]
    /\ fetch_result[sources[1]].items = <<"a">>
    /\ fetch_result[sources[2]].items = <<"b", "a">>
    /\ written = <<"a", "b", "a">>

\* C3 as stated: the overall result is the error of the fetch that failed
\* first in time.
C3_EarliestFailureInTime ==
    (pc = "done" /\ Failed # {}) =>
        /\ result.kind = "fetch_error"
        /\ result.source = FirstFailedInTime

\* C3 amended: the overall result is the error of the lowest-declared source
\* whose fetch returned a fatal error (every source declared before it was
\* yielded Ok), whenever it failed in time; it is never a success.
C3_LowestDeclaredFailure ==
    (pc = "done" /\ Failed # {}) =>
        /\ result.kind = "fetch_error"
        /\ result.source = MinOf(Failed)
        /\ \A j \in Built : j < result.source =>
               status[j] = "yielded" /\ fetch_result[j].kind = "ok"

C3_Witness ==
    /\ pc = "done"
    /\ result.kind = "fetch_error"
    /\ Cardinality(Failed) >= 2
    /\ result.source # FirstFailedInTime

\* C29: whenever the run has ended with the error of source k, the fetch of
\* k returned an error, every source declared before k returned Ok and had
\* its result collected, and no source that returned an error is declared
\* before k, in whatever order the fetches returned.
C29_ErrorOfLowestDeclared ==
    result.kind = "fetch_error" =>
        /\ result.source \in Built
        /\ fetch_result[result.source].kind = "err"
        /\ \A j \in Built : j < result.source =>
               /\ fetch_result[j].kind = "ok"
               /\ status[j] = "yielded"
               /\ \E n \in 1..Len(completion) : completion[n] = j
        /\ \A j \in Built : fetch_result[j].kind = "err" => result.source <= j

\* three sources, the first returned Ok, then the third failed, then the
\* second: the run ends with the error of the second
C29_Witness ==
    /\ result.kind = "fetch_error"
    /\ result.source = 2
    /\ completion = <<1, 3, 2>>
    /\ fetch_result[1].kind = "ok"
    /\ fetch_result[3].kind = "err"

\* C4 as stated: no fetch that was started is dropped mid-flight.
C4_SiblingsRunToCompletion ==
    \A i \in Entries : ~(status[i] = "dropped" /\ requests[i] >= 1)

\* C4 amended: started siblings keep running only while the run has not
\* ended; when the fatal error is consumed the run ends, every fetch still in
\* flight is dropped without completing, and nothing is written.
C4_SiblingsDroppedWhenErrorConsumed ==
    /\ result = Running => \A i \in Entries : status[i] # "dropped"
    /\ result.kind = "fetch_error" =>
          /\ InFlight = {}
          /\ write_calls = 0
          /\ \A i \in Entries : status[i] = "dropped" =>
                 fetch_result[i] = Pending

C4_Witness ==
    /\ result.kind = "fetch_error"
    /\ \E i \in Entries : status[i] = "dropped" /\ requests[i] >= 1
    /\ \E i \in Built : i < result.source /\ status[i] = "yielded"

C6_NoPartialOutput ==
    /\ write_calls <= 1
    /\ write_calls = 1 =>
          \A i \in Built : status[i] = "yielded" /\ fetch_result[i].kind = "ok"
    /\ Failed # {} => write_calls = 0 /\ written = <<>>

C6_Witness ==
    /\ write_calls = 1
    /\ Len(sources) >= 2
    /\ written # <<>>

\* C7 as stated: while a source waits and no failure has occurred, no slot is
\* idle: max_concurrency fetches are in flight.
C7_SlotFreedWhenFetchFinishes ==
    (pc = "poll" /\ Unstarted # {} /\ Failed = {}) =>
        Cardinality(InFlight) = max_concurrency

\* C7 amended: a slot is freed when a result is consumed in declaration
\* order: while a source waits and the run has not ended, the fetches in
\* flight plus the finished fetches not yet consumed fill all slots.
C7_SlotFreedWhenResultConsumed ==
    (pc = "poll" /\ Unstarted # {}) =>
        /\ Cardinality(InFlight) + Cardinality(Queued) = max_concurrency
        /\ Cardinality(InFlight) <= max_concurrency

C7_Witness ==
    /\ pc = "poll"
    /\ Unstarted # {}
    /\ Failed = {}
    /\ Queued # {}
    /\ Cardinality(InFlight) < max_concurrency

\* entries whose adapter cannot be constructed
Malformed ==
    {i \in Entries : /\ config_sources[i].enabled
                     /\ \/ config_sources[i].subreddit = ""
                        \/ config_sources[i].user_agent = ""}

\* C8: if an enabled entry's adapter cannot be constructed, the run ends with
\* the first construction error in declaration order and no fetch is started
\* or issues a request.
C8_ConstructionErrorBeforeNetwork ==
    Malformed # {} =>
        /\ \A i \in Entries : requests[i] = 0 /\ status[i] = "none"
        /\ pc \in {"build", "done"}
        /\ pc = "done" =>
              /\ result.kind = "build_error"
              /\ result.source = MinOf(Malformed)
              /\ result.msg = IF config_sources[result.source].subreddit = ""
                              THEN "subreddit cannot be empty"
                              ELSE "user_agent cannot be empty"

C8_Witness ==
    /\ pc = "done"
    /\ result.kind = "build_error"
    /\ result.msg = "user_agent cannot be empty"
    /\ Cardinality(Malformed) >= 2
    /\ sources # <<>>

(***************************************************************************)
(* SemanticScholarClient::fetch_with_retry (semantic_scholar.rs, 74-150)   *)
(***************************************************************************)
MAX_RETRIES == 3

\* statuses the endpoint may answer with
Statuses == {101, 200, 204, 302, 404, 429, 500, 503}

\* values of the Retry-After header of a 429 (<<>>: the header is absent)
Digits == {"0", "1", "2", "3", "4", "5", "6", "7", "8", "9"}
DigitVal(c) ==
    CASE c = "0" -> 0 [] c = "1" -> 1 [] c = "2" -> 2 [] c = "3" -> 3
      [] c = "4" -> 4 [] c = "5" -> 5 [] c = "6" -> 6 [] c = "7" -> 7
      [] c = "8" -> 8 [] c = "9" -> 9

NoHeader == <<"absent">>
RetryAfterHeaders ==
    {NoHeader, <<"2">>, <<"1", "0">>, <<"x">>, <<"-", "1">>,
     <<"1", "8", "4", "4", "6", "7", "4", "4", "0", "7", "3", "7", "0", "9",
       "5", "5", "2">>}

\* bodies of an error response
Unreadable == "<unreadable>"
Bodies == {"busy", "bad request", Unreadable}

\* response.text().await.unwrap_or_else(|_| "Unable to read error message")
ErrorText(body) ==
    IF body = Unreadable THEN "Unable to read error message" ELSE body

\* a u64 is the sequence of its decimal digits, the most significant
\* first and none of them a leading zero (<<>> is 0)
U64_MAX == <<1, 8, 4, 4, 6, 7, 4, 4, 0, 7, 3, 7, 0, 9, 5, 5, 1, 6, 1, 5>>
TWO_POW_64 == <<1, 8, 4, 4, 6, 7, 4, 4, 0, 7, 3, 7, 0, 9, 5, 5, 1, 6, 1, 6>>

RECURSIVE StripZeros(_)
StripZeros(d) ==
    IF d # <<>> /\ Head(d) = 0 THEN StripZeros(Tail(d)) ELSE d

LessEqDigits(x, y) ==
    \/ Len(x) < Len(y)
    \/ /\ Len(x) = Len(y)
       /\ \/ x = y
          \/ \E i \in 1..Len(x) :
                /\ x[i] < y[i]
                /\ \A j \in 1..(i - 1) : x[j] = y[j]

\* x - y for x >= y
SubDigits(x, y) ==
    LET n == Len(x)
        yp == [i \in 1..n |-> IF i <= n - Len(y) THEN 0 ELSE y[i - (n - Len(y))]]
        borrow[i \in 1..(n + 1)] ==
            IF i = n + 1 THEN 0
            ELSE IF x[i] - yp[i] - borrow[i + 1] < 0 THEN 1 ELSE 0
    IN  StripZeros([i \in 1..n |-> (x[i] - yp[i] - borrow[i + 1] + 10) % 10])

\* u64 arithmetic of a release build: the result modulo 2^64
RECURSIVE Wrap64(_)
Wrap64(x) ==
    IF LessEqDigits(x, U64_MAX) THEN x ELSE Wrap64(SubDigits(x, TWO_POW_64))

\* s * 1000, before it is fitted into 64 bits
Times1000(x) == IF x = <<>> THEN <<>> ELSE x \o <<0, 0, 0>>

\* the delays of the values drawn are below 2^31
RECURSIVE DigitsToInt(_)
DigitsToInt(d) ==
    IF d = <<>> THEN 0 ELSE DigitsToInt(SubSeq(d, 1, Len(d) - 1)) * 10 + d[Len(d)]

RECURSIVE IntToDigits(_)
IntToDigits(n) ==
    IF n = 0 THEN <<>> ELSE Append(IntToDigits(n \div 10), n % 10)

\* str::parse::<u64>: an optional '+', then one or more digits, the value at
\* most u64::MAX
ParseU64(s) ==
    LET body == IF s # <<>> /\ Head(s) = "+" THEN Tail(s) ELSE s
        value == StripZeros([i \in 1..Len(body) |-> DigitVal(body[i])])
    IN  IF body = <<>> \/ \E i \in 1..Len(body) : body[i] \notin Digits
        THEN [ok |-> FALSE, value |-> <<>>]
        ELSE IF LessEqDigits(value, U64_MAX)
        THEN [ok |-> TRUE, value |-> value]
        ELSE [ok |-> FALSE, value |-> <<>>]

\* 2_u64.pow(attempt)
RECURSIVE Pow2(_)
Pow2(n) == IF n = 0 THEN 1 ELSE 2 * Pow2(n - 1)

\* variant: every status from 400 on is taken for a server error
is_server_errorFrom400(code) == code >= 400 /\ code <= 599

\* variant: a 5xx is not retried
is_server_errorNever(code) == FALSE

is_server_error(code) == code >= 500 /\ code <= 599
is_client_error(code) == code >= 400 /\ code <= 499

\* lines 99-105, the delay of a 429: Retry-After in seconds times 1000 if it
\* parses, else 2^attempt * 1000.  The product is a u64: where it exceeds
\* u64::MAX the build with overflow checks panics and the build without
\* them takes the product modulo 2^64.
RateLimitDelay(header, a) ==
    IF header # NoHeader /\ ParseU64(header).ok
    THEN IF LessEqDigits(Times1000(ParseU64(header).value), U64_MAX)
         THEN {[panic |-> FALSE,
                ms |-> DigitsToInt(Times1000(ParseU64(header).value))]}
         ELSE {[panic |-> TRUE, ms |-> 0],
               [panic |-> FALSE,
                ms |-> DigitsToInt(Wrap64(Times1000(ParseU64(header).value)))]}
    ELSE {[panic |-> FALSE, ms |-> Pow2(a) * 1000]}

\* variant: the ceiling compared with > in place of >=
RetryCeilingReachedOffByOne == attempt > MAX_RETRIES

\* `if attempt >= MAX_RETRIES`
RetryCeilingReached == attempt >= MAX_RETRIES

RetryFrame ==
    UNCHANGED <<orch_vars, reddit_vars, ss_vars, aux_vars>>

\* variant: every 2xx is returned as a response
is_okAnySuccess(code) == code >= 200 /\ code <= 299

\* line 92: the arm `StatusCode::OK`
is_ok(code) == code = 200

\* request.send() fails: `?` returns the error
RetrySendFails ==
    /\ retry_pc = "send"
    /\ retry_statuses' = Append(retry_statuses, 0)
    /\ retry_bodies' = Append(retry_bodies, "")
    /\ retry_headers' = Append(retry_headers, NoHeader)
    /\ retry_result' = [kind |-> "send_failed", status |-> 0, body |-> ""]
    /\ retry_pc' = "done"
    /\ UNCHANGED <<attempt, retry_sleeps>>
    /\ RetryFrame

\* one iteration of the loop, from send() to the return, the bail or the sleep
RetrySend(code, header, body) ==
    /\ retry_pc = "send"
    /\ retry_statuses' = Append(retry_statuses, code)
    /\ retry_bodies' = Append(retry_bodies, body)
    /\ retry_headers' = Append(retry_headers, header)
    /\ IF is_ok(code)
       THEN /\ retry_result' = [kind |-> "response", status |-> code, body |-> ""]
            /\ retry_pc' = "done"
            /\ UNCHANGED retry_sleeps
       ELSE IF code = 429
       THEN IF RetryCeilingReached
            THEN /\ retry_result' = [kind |-> "rate_limited", status |-> 429, body |-> ""]
                 /\ retry_pc' = "done"
                 /\ UNCHANGED retry_sleeps
            ELSE \E delay \in RateLimitDelay(header, attempt) :
                    IF delay.panic
                    THEN /\ retry_result' = [kind |-> "panic", status |-> 429, body |-> ""]
                         /\ retry_pc' = "done"
                         /\ UNCHANGED retry_sleeps
                    ELSE /\ retry_sleeps' = Append(retry_sleeps, delay.ms)
                         /\ retry_pc' = "sleep"
                         /\ UNCHANGED retry_result
       ELSE IF is_server_error(code)
       THEN IF RetryCeilingReached
            THEN /\ retry_result' = [kind |-> "server_error", status |-> code, body |-> ErrorText(body)]
                 /\ retry_pc' = "done"
                 /\ UNCHANGED retry_sleeps
            ELSE /\ retry_sleeps' = Append(retry_sleeps, Pow2(attempt) * 1000)
                 /\ retry_pc' = "sleep"
                 /\ UNCHANGED retry_result
       ELSE IF is_client_error(code)
       THEN /\ retry_result' = [kind |-> "client_error", status |-> code, body |-> ErrorText(body)]
            /\ retry_pc' = "done"
            /\ UNCHANGED retry_sleeps
       ELSE /\ retry_result' = [kind |-> "unexpected_status", status |-> code, body |-> ""]
            /\ retry_pc' = "done"
            /\ UNCHANGED retry_sleeps
    /\ UNCHANGED attempt
    /\ RetryFrame

\* the sleep ends: `attempt += 1` and the loop sends again
RetryWake ==
    /\ retry_pc = "sleep"
    /\ attempt' = attempt + 1
    /\ retry_pc' = "send"
    /\ UNCHANGED <<retry_sleeps, retry_statuses, retry_bodies, retry_headers,
                   retry_result>>
    /\ RetryFrame

\* the orchestrator stays in its initial state with a fixed configuration
OrchIdle ==
    /\ config_sources = [i \in 1..MaxEntries |->
                           [enabled |-> TRUE, subreddit |-> "rust",
                            user_agent |-> "crawler/0.1.0"]]
    /\ max_concurrency = 1
    /\ pc = "idle"
    /\ build_idx = 1
    /\ sources = <<>>
    /\ next_source = 1
    /\ status = [i \in 1..MaxEntries |-> "none"]
    /\ fetch_result = [i \in 1..MaxEntries |-> Pending]
    /\ requests = [i \in 1..MaxEntries |-> 0]
    /\ all_results = <<>>
    /\ result = Running
    /\ written = <<>>
    /\ write_calls = 0
    /\ completion = <<>>

InitRetry ==
    /\ OrchIdle
    /\ retry_pc = "send"
    /\ attempt = 0
    /\ retry_sleeps = <<>>
    /\ retry_statuses = <<>>
    /\ retry_bodies = <<>>
    /\ retry_headers = <<>>
    /\ retry_result = NoResult
    /\ RedditIdle
    /\ ScholarIdle
    /\ AuxIdle

\* the header is read on a 429 only, the body on a 4xx or 5xx only
ResponseShapes(code) ==
    IF code = 429 THEN {<<h, "">> : h \in RetryAfterHeaders}
    ELSE IF code >= 400 THEN {<<NoHeader, b>> : b \in Bodies}
    ELSE {<<NoHeader, "">>}

NextRetry ==
    \/ RetrySendFails
    \/ \E code \in Statuses : \E shape \in ResponseShapes(code) :
          RetrySend(code, shape[1], shape[2])
    \/ RetryWake

SpecRetry == InitRetry /\ [][NextRetry]_vars

RetryRequests == Len(retry_statuses)

AllAnswers429 == \A k \in 1..Len(retry_statuses) : retry_statuses[k] = 429

\* C9: an endpoint that answers every request with 429 causes exactly
\* MAX_RETRIES retries (MAX_RETRIES + 1 requests) and then a fatal
\* rate-limit error.
C9_Always429RetriesThenFatal ==
    AllAnswers429 =>
        /\ RetryRequests <= 4
        /\ retry_pc = "done" <=> RetryRequests = 4
        /\ retry_pc = "done" =>
              /\ retry_result.kind = "rate_limited"
              /\ Len(retry_sleeps) = 3
              /\ attempt = 3

C12_ClientErrorFatalAtOnce ==
    \A k \in 1..Len(retry_statuses) :
        (retry_statuses[k] >= 400 /\ retry_statuses[k] <= 499
            /\ retry_statuses[k] # 429) =>
            /\ k = Len(retry_statuses)
            /\ Len(retry_sleeps) = k - 1
            /\ retry_pc = "done"
            /\ retry_result.kind = "client_error"
            /\ retry_result.status = retry_statuses[k]

C12_Witness ==
    /\ retry_pc = "done"
    /\ retry_statuses = <<429, 500, 404>>
    /\ Len(retry_sleeps) = 2
    /\ retry_result.kind = "client_error"

\* C35: the call returns a response only when the status of the last
\* answer is 200; an answer with any other status that is neither 429 nor
\* 5xx (101, 204, 302, 404) is the last of the call, which ends with an
\* error naming that status, no sleep and no request following it.
C35_OnlyOkIsReturned ==
    /\ retry_result.kind = "response" =>
           /\ retry_statuses # <<>>
           /\ retry_statuses[Len(retry_statuses)] = 200
           /\ retry_result.status = 200
    /\ \A k \in 1..Len(retry_statuses) :
           (/\ retry_statuses[k] \notin {0, 200, 429}
            /\ ~(retry_statuses[k] >= 500 /\ retry_statuses[k] <= 599)) =>
               /\ k = Len(retry_statuses)
               /\ retry_pc = "done"
               /\ retry_result.kind \in {"client_error", "unexpected_status"}
               /\ retry_result.status = retry_statuses[k]
               /\ Len(retry_sleeps) = k - 1
               /\ attempt = k - 1

\* a 204 after one retry: an error, not a response
C35_Witness ==
    /\ retry_pc = "done"
    /\ retry_statuses = <<503, 204>>
    /\ Len(retry_sleeps) = 1
    /\ retry_result.kind = "unexpected_status"
    /\ retry_result.status = 204

\* the responses so far that ask for a retry: a 429 or a 5xx
RetriableAnswers ==
    {k \in 1..Len(retry_statuses) :
        retry_statuses[k] = 429
            \/ (retry_statuses[k] >= 500 /\ retry_statuses[k] <= 599)}

\* C30: the retries after a 429 and after a 5xx are counted by the one
\* attempt counter: every sleep, after either, adds one to it, it never
\* exceeds 3, and whatever mix of 429 and 5xx is answered one call sends at
\* most 4 requests, the fourth of which ends it.
C30_SharedAttemptCounter ==
    /\ RetryRequests <= 4
    /\ Len(retry_sleeps) <= 3
    /\ attempt = Len(retry_sleeps) - (IF retry_pc = "sleep" THEN 1 ELSE 0)
    /\ Len(retry_sleeps) <= Cardinality(RetriableAnswers)
    /\ RetryRequests = 4 => retry_pc = "done"

\* 429 and 5xx alternate: the fourth response ends the call
C30_Witness ==
    /\ retry_pc = "done"
    /\ retry_statuses = <<429, 500, 429, 503>>
    /\ attempt = 3
    /\ retry_result.kind = "server_error"

\* the delay the header announces: its seconds times 1000, in digits
AnnouncedDelay(header) == Times1000(ParseU64(header).value)

\* C26: after a 429 received at attempt index a below the ceiling the call
\* sleeps Retry-After * 1000 ms when the header is present and parses as a
\* non-negative integer, and 2^a * 1000 ms otherwise.
C26_RateLimitDelay ==
    \A k \in 1..Len(retry_statuses) :
        (retry_statuses[k] = 429 /\ k <= 3) =>
            /\ Len(retry_sleeps) >= k
            /\ IF retry_headers[k] # NoHeader /\ ParseU64(retry_headers[k]).ok
               THEN IntToDigits(retry_sleeps[k]) = AnnouncedDelay(retry_headers[k])
               ELSE retry_sleeps[k] = <<1000, 2000, 4000>>[k]

(***************************************************************************)
(* SourceFilters (source/mod.rs, 46-86) and the retain of Source::fetch    *)
(***************************************************************************)
\* a String is the sequence of its characters
TitleTexts == {<<>>, <<"r">>, <<"R">>}
BodyTexts == {<<>>, <<"s">>}
KeywordTexts == {<<"r">>, <<"S">>, <<"r", "s">>, <<"r", " ", "s">>}
MatchModes == {"any", "all"}

\* char::to_lowercase on the characters drawn
LowerChar(c) == CASE c = "R" -> "r" [] c = "S" -> "s" [] OTHER -> c

\* str::to_lowercase
to_lowercase(str) == [k \in 1..Len(str) |-> LowerChar(str[k])]

\* str::contains
contains(text, pattern) ==
    \E i \in 0..(Len(text) - Len(pattern)) :
        SubSeq(text, i + 1, i + Len(pattern)) = pattern

\* SourceFilters::new, line 56
lowercase_keywords == [k \in 1..Len(keywords) |-> to_lowercase(keywords[k])]

\* variant: the text is searched as it is written
MatchTextAsWritten(content) == content.title \o <<" ">> \o content.body

\* line 71: format!("{} {}", content.title, content.body).to_lowercase()
MatchText(content) ==
    to_lowercase(content.title \o <<" ">> \o content.body)

\* variant: no early return for an empty keyword set
matchesWithoutEmptyCase(content) ==
    IF match_mode = "any"
    THEN \E k \in 1..Len(lowercase_keywords) :
             contains(MatchText(content), lowercase_keywords[k])
    ELSE \A k \in 1..Len(lowercase_keywords) :
             contains(MatchText(content), lowercase_keywords[k])

\* SourceFilters::matches
matches(content) ==
    IF lowercase_keywords = <<>>
    THEN TRUE
    ELSE IF match_mode = "any"
    THEN \E k \in 1..Len(lowercase_keywords) :
             contains(MatchText(content), lowercase_keywords[k])
    ELSE \A k \in 1..Len(lowercase_keywords) :
             contains(MatchText(content), lowercase_keywords[k])

\* variant: the last item kept is dropped as well
retainThenPop(list) ==
    LET kept == SelectSeq(list, matches)
    IN  IF kept = <<>> THEN kept ELSE SubSeq(kept, 1, Len(kept) - 1)

\* contents.retain(|content| filters.matches(content))
retain(list) == SelectSeq(list, matches)

(***************************************************************************)
(* RedditClient::fetch_posts (source/reddit.rs, 101-198)                   *)
(***************************************************************************)
RedditStatuses == {200, 302, 404, 429, 500}

Scores == {0, 5}
Floors == {0, 3}

\* what the model keeps of a RedditPost: its score, comment count, title and
\* selftext; the id is the position of the post in everything the provider
\* has sent.
PostShapes ==
    [score : Scores, num_comments : Scores, title : TitleTexts,
     selftext : BodyTexts]

\* the posts drawn where the text plays no part: high on both counts or low
\* on one of them
PostKinds ==
    {p \in PostShapes : /\ ~(p.score = 0 /\ p.num_comments = 0)
                        /\ p.title = <<"r">>
                        /\ p.selftext = <<>>}

Pages == UNION {[1..n -> PostKinds] : n \in 0..MaxPageLen}

RedditConfigsUpTo(n) ==
    [limit : 1..n, min_score : Floors, min_comments : Floors,
     rate_limit_delay_ms : {1000}]

RedditConfigs == RedditConfigsUpTo(MaxLimit)

is_success(code) == code >= 200 /\ code <= 299

\* the map of lines 142-161: RedditPost to Content
ToContents(children) ==
    [k \in 1..Len(children) |->
        [id |-> served + k, title |-> children[k].title,
         body |-> children[k].selftext, score |-> children[k].score,
         num_comments |-> children[k].num_comments]]

\* variant: only the score floor is applied
PassesConfigFiltersScoreOnly(content) ==
    content.score >= reddit_config.min_score

\* the predicate of apply_config_filters
PassesConfigFilters(content) ==
    /\ content.score >= reddit_config.min_score
    /\ content.num_comments >= reddit_config.min_comments

\* variant: the keyword filter is applied to every page as well
apply_config_filtersAndKeywords(contents) ==
    SelectSeq(SelectSeq(contents, PassesConfigFilters), matches)

apply_config_filters(contents) == SelectSeq(contents, PassesConfigFilters)

Min2(a, b) == IF a <= b THEN a ELSE b
Max2(a, b) == IF a >= b THEN a ELSE b

\* ceil(a / b) for b > 0
CeilDiv(a, b) == (a + b - 1) \div b

\* variant: truncate leaves the vector as it is
TruncateKeepsAll(v, n) == v

\* Vec::truncate
Truncate(v, n) == IF Len(v) > n THEN SubSeq(v, 1, n) ELSE v

RedditRequests == {k \in 1..Len(reddit_log) : reddit_log[k].ev = "request"}

\* a request and what came of it: the cursor sent, the status, whether a
\* page was parsed, the cursor of that page and the accumulated count after
\* the append of line 166
RequestEvent(code, ok, next_after, count) ==
    [ev |-> "request", cursor |-> after, code |-> code, ms |-> 0, ok |-> ok,
     next |-> next_after, count |-> count]

\* a request that brought no page
FailedRequest(code) == RequestEvent(code, FALSE, 0, Len(all_contents))

SleepEvent == [ev |-> "sleep", cursor |-> 0, code |-> 0,
               ms |-> reddit_config.rate_limit_delay_ms, ok |-> FALSE,
               next |-> 0, count |-> 0]

RedditFrame ==
    UNCHANGED <<orch_vars, retry_vars, ss_vars, aux_vars, listing, page_size>>

RedditReturn(kind, code) ==
    /\ reddit_result' = [kind |-> kind, status |-> code, body |-> ""]
    /\ reddit_pc' = "done"

\* send() fails: `?` returns the error
RedditSendFails ==
    /\ reddit_pc = "request"
    /\ reddit_log' = Append(reddit_log, FailedRequest(0))
    /\ RedditReturn("send_failed", 0)
    /\ UNCHANGED <<reddit_config, all_contents, after, served, provided>>
    /\ RedditFrame

\* variant: a 429 is answered by a sleep and another request
RedditOn429Retry ==
    /\ reddit_log' = reddit_log \o <<FailedRequest(429), SleepEvent>>
    /\ reddit_pc' = "sleep"
    /\ UNCHANGED <<all_contents, after, served, provided, reddit_result>>

\* lines 119-125: `if response.status() == 429 { bail! }`
RedditOn429 ==
    /\ reddit_log' = Append(reddit_log, FailedRequest(429))
    /\ RedditReturn("rate_limited", 429)
    /\ UNCHANGED <<all_contents, after, served, provided>>

\* variant: the limit counts as reached only when it is exceeded
LimitReachedWhenExceeded(acc) == Len(acc) > reddit_config.limit

\* line 169: `all_contents.len() >= target_limit`
LimitReached(acc) == Len(acc) >= reddit_config.limit

\* variant: the token of the page is dropped and the old one sent again
NextCursorStale(next_after) == after

\* line 176: `after = Some(after_token)`
NextCursor(next_after) == next_after

\* one iteration of the loop, from the request to the return, the bail or
\* the sleep
RedditRequest(code, children, next_after, parse_ok) ==
    /\ reddit_pc = "request"
    /\ IF code = 429
       THEN RedditOn429
       ELSE IF ~is_success(code)
       THEN /\ reddit_log' = Append(reddit_log, FailedRequest(code))
            /\ RedditReturn("api_error", code)
            /\ UNCHANGED <<all_contents, after, served, provided>>
       ELSE IF ~parse_ok
       THEN /\ reddit_log' = Append(reddit_log, FailedRequest(code))
            /\ RedditReturn("parse_failed", code)
            /\ UNCHANGED <<all_contents, after, served, provided>>
       ELSE LET contents == apply_config_filters(ToContents(children))
                acc == all_contents \o contents
                event == RequestEvent(code, TRUE, next_after, Len(acc))
            IN  /\ served' = served + Len(children)
                /\ provided' = provided \o ToContents(children)
                /\ IF LimitReached(acc)
                   THEN /\ all_contents' = Truncate(acc, reddit_config.limit)
                        /\ reddit_log' = Append(reddit_log, event)
                        /\ RedditReturn("ok", code)
                        /\ UNCHANGED after
                   ELSE IF next_after # 0
                   THEN /\ all_contents' = acc
                        /\ after' = NextCursor(next_after)
                        /\ reddit_log' = reddit_log \o <<event, SleepEvent>>
                        /\ reddit_pc' = "sleep"
                        /\ UNCHANGED reddit_result
                   ELSE /\ all_contents' = acc
                        /\ reddit_log' = Append(reddit_log, event)
                        /\ RedditReturn("ok", code)
                        /\ UNCHANGED after
    /\ UNCHANGED reddit_config
    /\ RedditFrame

\* the sleep ends and the loop builds the next URL
RedditWake ==
    /\ reddit_pc = "sleep"
    /\ reddit_pc' = "request"
    /\ UNCHANGED <<reddit_config, all_contents, after, served, provided,
                   reddit_log, reddit_result>>
    /\ RedditFrame

\* the state at the head of the loop, lines 102-104
RedditStart ==
    /\ OrchIdle
    /\ RetryIdle
    /\ ScholarIdle
    /\ AuxIdle
    /\ reddit_pc = "request"
    /\ all_contents = <<>>
    /\ after = 0
    /\ served = 0
    /\ provided = <<>>
    /\ reddit_log = <<>>
    /\ reddit_result = NoResult

InitReddit ==
    /\ RedditStart
    /\ reddit_config \in RedditConfigs
    /\ listing = <<>>
    /\ page_size = 1

\* the token of the page sent in answer to the next request
FreshToken == Cardinality(RedditRequests) + 1

\* the requests of one modelled call are capped
RequestBudget == Cardinality(RedditRequests) < MaxRedditRequests

RedditAnyResponse ==
    \/ RedditSendFails
    \/ \E code \in RedditStatuses \ {200} : RedditRequest(code, <<>>, 0, TRUE)
    \/ RedditRequest(200, <<>>, 0, FALSE)
    \/ \E children \in Pages : \E next_after \in {0, FreshToken} :
          RedditRequest(200, children, next_after, TRUE)

NextReddit ==
    \/ RequestBudget /\ RedditAnyResponse
    \/ RedditWake

SpecReddit == InitReddit /\ [][NextReddit]_vars

\* C10: a 429 on any page ends the fetch at once with a rate-limit error:
\* nothing follows the request it answered, neither a request nor a sleep.
C10_RedditNoRetryOn429 ==
    \A k \in RedditRequests :
        reddit_log[k].code = 429 =>
            /\ k = Len(reddit_log)
            /\ reddit_pc = "done"
            /\ reddit_result.kind = "rate_limited"

C10_Witness ==
    /\ Cardinality(RedditRequests) = 2
    /\ reddit_log[Len(reddit_log)].code = 429
    /\ reddit_pc = "done"
    /\ all_contents # <<>>

\* the request before request k of the log
PreviousRequest(k) ==
    CHOOSE j \in RedditRequests :
        j < k /\ \A i \in RedditRequests : i < k => i <= j

\* C34: the first request of a fetch is built without a cursor (0 stands
\* for None), and every later request is built with the cursor of the page
\* the request before it received, which was a parsed page with a cursor.
C34_CursorChain ==
    \A k \in RedditRequests :
        IF \A j \in RedditRequests : j >= k
        THEN reddit_log[k].cursor = 0
        ELSE /\ reddit_log[PreviousRequest(k)].ok
             /\ reddit_log[PreviousRequest(k)].next # 0
             /\ reddit_log[k].cursor = reddit_log[PreviousRequest(k)].next

\* three requests: none, then the cursor of the first page, then the cursor
\* of the second, which differs from the first
C34_Witness ==
    /\ Cardinality(RedditRequests) = 3
    /\ reddit_log[1].cursor = 0
    /\ reddit_log[1].next # 0
    /\ reddit_log[3].cursor = reddit_log[1].next
    /\ reddit_log[3].next # reddit_log[1].next
    /\ reddit_log[3].next # 0
    /\ reddit_log[5].cursor = reddit_log[3].next

\* C15 as stated, for fetch_posts: the stop conditions bound the requests of
\* a fetch whatever the provider answers. The only bound they can give is
\* the target limit (every page that does not end the fetch would have to
\* bring at least one item): a fetch never issues more requests than its
\* limit.
C15_RequestsBoundedByLimit ==
    Cardinality(RedditRequests) <= reddit_config.limit

MeetsFloors(content) ==
    /\ content.score >= reddit_config.min_score
    /\ content.num_comments >= reddit_config.min_comments

\* C16: every item of the accumulator, and so every item returned, meets
\* both floors, and the items that fail one do not count toward the limit:
\* the accumulator is the first `limit` floor-meeting posts of all the posts
\* the provider has sent, in their order.
C16_FloorsHoldAndDoNotCount ==
    LET passing == SelectSeq(provided, MeetsFloors)
    IN  /\ \A k \in 1..Len(all_contents) :
               /\ all_contents[k].score >= reddit_config.min_score
               /\ all_contents[k].num_comments >= reddit_config.min_comments
        /\ all_contents =
               SubSeq(passing, 1, Min2(Len(passing), reddit_config.limit))

\* two pages, the first with a post under the comment floor: the limit of 2
\* is reached by the posts that meet the floors only
C16_Witness ==
    /\ reddit_pc = "done"
    /\ reddit_result.kind = "ok"
    /\ reddit_config.limit = 2
    /\ reddit_config.min_comments = 3
    /\ Cardinality(RedditRequests) = 2
    /\ Len(provided) = 4
    /\ provided[1].num_comments = 0
    /\ provided[4].score < reddit_config.min_score
    /\ Len(all_contents) = 2
    /\ all_contents[1].id = 2
    /\ all_contents[2].id = 3

\* C17: a sleep of the configured delay follows a request exactly when that
\* request brought a page, the limit was not reached and the page carried a
\* cursor; the fetch does not end on a sleep, and whatever follows a sleep is
\* a request; nothing is slept before the first request.
C17_SleepOnlyBetweenRequests ==
    /\ \A k \in 1..Len(reddit_log) :
           reddit_log[k].ev = "sleep" =>
               /\ k > 1
               /\ reddit_log[k].ms = reddit_config.rate_limit_delay_ms
               /\ reddit_log[k - 1].ev = "request"
               /\ reddit_log[k - 1].ok
               /\ reddit_log[k - 1].count < reddit_config.limit
               /\ reddit_log[k - 1].next # 0
               /\ IF k = Len(reddit_log)
                  THEN reddit_pc \in {"sleep", "request"}
                  ELSE reddit_log[k + 1].ev = "request"
    /\ \A k \in RedditRequests :
           (/\ reddit_log[k].ok
            /\ reddit_log[k].count < reddit_config.limit
            /\ reddit_log[k].next # 0)
               => (k < Len(reddit_log) /\ reddit_log[k + 1].ev = "sleep")
    /\ reddit_pc = "done" =>
           (reddit_log # <<>> /\ reddit_log[Len(reddit_log)].ev = "request")

\* a page with a cursor under the limit, a sleep, then a page that reaches
\* the limit and carries a cursor: no sleep after it
C17_Witness ==
    /\ reddit_pc = "done"
    /\ Len(reddit_log) = 3
    /\ reddit_log[2].ev = "sleep"
    /\ reddit_log[3].ev = "request"
    /\ reddit_log[3].next # 0
    /\ reddit_log[3].count >= reddit_config.limit
    /\ reddit_result.kind = "ok"

(***************************************************************************)
(* fetch_posts against a provider that pages through a finite listing      *)
(***************************************************************************)
Listings == UNION {[1..n -> PostKinds] : n \in 0..MaxTotal}

\* the page the provider sends for the cursor of the request: the cursor is
\* the position of the last post of the page before (0: from the start)
ListingPage == SubSeq(listing, after + 1, Min2(after + page_size, Len(listing)))

\* the cursor of that page: none on the last page
ListingCursor ==
    IF after + Len(ListingPage) < Len(listing)
    THEN after + Len(ListingPage)
    ELSE 0

ListingRequest == RedditRequest(200, ListingPage, ListingCursor, TRUE)

InitListing ==
    /\ RedditStart
    /\ reddit_config \in RedditConfigsUpTo(MaxListingLimit)
    /\ listing \in Listings
    /\ page_size \in 1..MaxPageSize

NextListing ==
    \/ ListingRequest
    \/ RedditWake

SpecListing == InitListing /\ [][NextListing]_vars

\* the Content of the first n posts of the listing
ListingHead(n) ==
    [k \in 1..n |-> [id |-> k, title |-> listing[k].title,
                     body |-> listing[k].selftext,
                     score |-> listing[k].score,
                     num_comments |-> listing[k].num_comments]]

NoFloors == reddit_config.min_score = 0 /\ reddit_config.min_comments = 0

C14_Original_RequestsAtMostCeil ==
    Cardinality(RedditRequests) <= CeilDiv(Len(listing), page_size)

\* C14: the requests never outnumber the pages of the listing, and an empty
\* listing still costs the one request that finds it empty:
\* requests <= max(1, ceil(total_available / page_size)).
C14_RequestsAtMostPages ==
    Cardinality(RedditRequests) <= Max2(1, CeilDiv(Len(listing), page_size))

\* an empty listing: one request, none allowed by the bound as stated
C14_Witness ==
    /\ reddit_pc = "done"
    /\ listing = <<>>
    /\ Cardinality(RedditRequests) = 1
    /\ reddit_result.kind = "ok"
    /\ all_contents = <<>>

(***************************************************************************)
(* SemanticScholarClient: convert_and_filter, paper_to_content             *)
(* (source/semantic_scholar.rs, 243-298)                                   *)
(***************************************************************************)
\* Option<T>: <<>> is None, <<x>> is Some(x)
None == <<>>
Some(x) == <<x>>
UnwrapOr(opt, default) == IF opt = None THEN default ELSE opt[1]

Citations == {None, Some(5), Some(15), Some(20)}
MinCitations == {0, 10}

\* what the model keeps of a Paper, before its paper_id is known
PaperShapes ==
    [title : {None, Some(<<"R">>)}, abstract_text : {None, Some(<<"s">>)},
     citation_count : Citations]

\* the papers of a response: the paper_id is the position of the paper in
\* everything received; they carry no year and no authors
Stamp(shapes, base) ==
    [k \in 1..Len(shapes) |->
        [paper_id |-> base + k, title |-> shapes[k].title,
         abstract_text |-> shapes[k].abstract_text,
         year |-> None,
         citation_count |-> shapes[k].citation_count,
         authors |-> <<>>]]

\* "Untitled".to_string()
Untitled == <<"U", "n", "t", "i", "t", "l", "e", "d">>

\* the bounds of an i32
I32_MAX == 2147483647
I32_MIN == -2147483647 - 1

\* the decimal digits of |n|
Magnitude(n) ==
    IF n >= 0 THEN IntToDigits(n)
    ELSE IF n = I32_MIN THEN <<2, 1, 4, 7, 4, 8, 3, 6, 4, 8>>
    ELSE IntToDigits(-n)

\* d * m + carry on decimal digits, m below 10^8
RECURSIVE MulSmall(_, _, _)
MulSmall(d, m, carry) ==
    IF d = <<>> THEN IntToDigits(carry)
    ELSE LET t == d[Len(d)] * m + carry
         IN  Append(MulSmall(SubSeq(d, 1, Len(d) - 1), m, t \div 10), t % 10)

\* d + c on decimal digits
RECURSIVE AddSmall(_, _)
AddSmall(d, c) ==
    IF c = 0 THEN d
    ELSE IF d = <<>> THEN IntToDigits(c)
    ELSE LET t == d[Len(d)] + c
         IN  Append(AddSmall(SubSeq(d, 1, Len(d) - 1), t \div 10), t % 10)

\* `y - 1970` leaves the range of i32
SubOverflows(y) == y < I32_MIN + 1970

\* y - 1970 + 2^32 for a y with SubOverflows(y)
WrappingSub1970(y) == ((y + I32_MAX) + 1 - 1970 + I32_MAX) + 1

\* lines 266-297, given years_since_1970; created_utc is an i64, kept as
\* its sign and its decimal digits: years_since_1970 is within i32, so the
\* product is within i64
paper_to_content_at(paper, years_since_1970) ==
    [id |-> paper.paper_id,
     title |-> UnwrapOr(paper.title, Untitled),
     body |-> UnwrapOr(paper.abstract_text, <<>>),
     author |-> (IF paper.authors = <<>>
                 THEN "Unknown"
                 ELSE UnwrapOr(Head(paper.authors).name, "Unknown")),
     created_utc |-> (IF years_since_1970 = None
                      THEN [neg |-> FALSE, digits |-> <<>>]
                      ELSE [neg |-> years_since_1970[1] < 0,
                            digits |-> MulSmall(Magnitude(years_since_1970[1]),
                                                31536000, 0)]),
     score |-> UnwrapOr(paper.citation_count, 0),
     num_comments |-> 0]

\* lines 265-298, for a year from which 1970 can be subtracted in i32
paper_to_content(paper) ==
    paper_to_content_at(paper,
                        IF paper.year = None
                        THEN None ELSE Some(paper.year[1] - 1970))

\* variant: a paper is dropped when its title or its abstract is missing
KeepsPaperNeedsBoth(paper) ==
    /\ ~(paper.title = None \/ paper.abstract_text = None)
    /\ ~(UnwrapOr(paper.citation_count, 0) < ss_config.min_citations)

\* the two early returns of the closure, lines 248-256
KeepsPaper(paper) ==
    /\ ~(paper.title = None /\ paper.abstract_text = None)
    /\ ~(UnwrapOr(paper.citation_count, 0) < ss_config.min_citations)

\* into_iter().filter_map(..).collect()
RECURSIVE convert_and_filter(_)
convert_and_filter(papers) ==
    IF papers = <<>>
    THEN <<>>
    ELSE LET rest == convert_and_filter(Tail(papers))
         IN  IF KeepsPaper(Head(papers))
             THEN <<paper_to_content(Head(papers))>> \o rest
             ELSE rest

ScholarFrame == UNCHANGED <<orch_vars, reddit_vars, aux_vars>>

\* convert_and_filter called on a list of papers
ConvertAndFilter ==
    /\ ss_pc = "convert"
    /\ ss_result' = [kind |-> "ok", contents |-> convert_and_filter(all_papers)]
    /\ ss_pc' = "done"
    /\ UNCHANGED <<ss_config, all_papers, offset, ss_received, ss_log,
                   last_retries>>
    /\ UNCHANGED retry_vars
    /\ ScholarFrame

PaperLists == UNION {[1..n -> PaperShapes] : n \in 0..MaxPapers}

ScholarConfigs ==
    [mode : {"search", "recommendations"}, max_results : 1..MaxResults,
     min_citations : MinCitations, rate_limit_delay_ms : {1000}]

InitConvert ==
    /\ OrchIdle
    /\ RetryIdle
    /\ RedditIdle
    /\ AuxIdle
    /\ ss_pc = "convert"
    /\ ss_config \in {c \in ScholarConfigs :
                         c.mode = "search" /\ c.max_results = 1}
    /\ \E shapes \in PaperLists : all_papers = Stamp(shapes, 0)
    /\ offset = 0
    /\ ss_received = <<>>
    /\ ss_log = <<>>
    /\ last_retries = 0
    /\ ss_result = NoPapers

NextConvert == ConvertAndFilter

SpecConvert == InitConvert /\ [][NextConvert]_vars

\* the positions of the papers with a title or an abstract and with a
\* citation count, missing counted as 0, of at least min_citations
KeptPositions ==
    {i \in 1..Len(all_papers) :
        /\ (all_papers[i].title # None \/ all_papers[i].abstract_text # None)
        /\ (IF all_papers[i].citation_count = None
            THEN 0
            ELSE all_papers[i].citation_count[1]) >= ss_config.min_citations}

\* C20: convert_and_filter returns one Content for each paper that has a
\* title or an abstract and at least min_citations citations (missing counted
\* as 0), for no other paper, and in the order of the papers.
C20_KeepsExactlyInOrder ==
    ss_pc = "done" =>
        LET out == ss_result.contents
        IN  /\ ss_result.kind = "ok"
            /\ {out[k].id : k \in 1..Len(out)} = KeptPositions
            /\ \A k \in 1..(Len(out) - 1) : out[k].id < out[k + 1].id

\* citations [20, 5, 15] with min_citations 10: the first and the third
C20_Witness ==
    /\ ss_pc = "done"
    /\ ss_config.min_citations = 10
    /\ Len(all_papers) = 3
    /\ all_papers[1].citation_count = Some(20)
    /\ all_papers[2].citation_count = Some(5)
    /\ all_papers[3].citation_count = Some(15)
    /\ Len(ss_result.contents) = 2
    /\ ss_result.contents[1].id = 1
    /\ ss_result.contents[2].id = 3

(***************************************************************************)
(* SemanticScholarClient::fetch_search_papers (153-218) and                *)
(* fetch_recommendations (221-240), each over fetch_with_retry             *)
(***************************************************************************)
API_PAGE_SIZE == 100
MAX_OFFSET == 10000

\* `as usize` of an i64: a negative value wraps to 2^64 + n. The model keeps
\* the distance from the top of the range and puts the top at 2^31 - 1; the
\* value is only ever compared with MAX_OFFSET.
UsizeMax == 2147483647
AsUsize(n) == IF n < 0 THEN UsizeMax + (n + 1) ELSE n

\* SearchResponse.next
NextOffsets == {None, Some(-1), Some(9999), Some(10000)}

\* the papers a response may carry
ResponseShapes3 ==
    {[title |-> Some(<<"R">>), abstract_text |-> Some(<<"s">>), citation_count |-> Some(20)],
     [title |-> Some(<<"R">>), abstract_text |-> None, citation_count |-> Some(5)],
     [title |-> None, abstract_text |-> None, citation_count |-> Some(20)]}

ResponsePapers == UNION {[1..n -> ResponseShapes3] : n \in 0..MaxResponsePapers}

ScholarEvent(ev) ==
    [ev |-> ev, offset |-> offset, count |-> Len(all_papers), limit |-> 0,
     size |-> 0, next |-> None, ms |-> 0]

\* variant: the page size is what is missing, without the cap
page_limitUncapped == ss_config.max_results - Len(all_papers)

\* line 162
page_limit == Min2(API_PAGE_SIZE, ss_config.max_results - Len(all_papers))

CallEvent == [ScholarEvent("call") EXCEPT !.limit =
                 IF ss_config.mode = "search" THEN page_limit ELSE 0]
PageEvent(data, next) ==
    [ScholarEvent("page") EXCEPT !.size = Len(data), !.next = next]
ScholarSleepEvent ==
    [ScholarEvent("sleep") EXCEPT !.ms = ss_config.rate_limit_delay_ms]

ScholarCalls == {k \in 1..Len(ss_log) : ss_log[k].ev = "call"}

\* variant: the counter is kept from call to call
FreshAttemptKept == last_retries

\* line 76: `let mut attempt = 0;`, a local of fetch_with_retry
FreshAttempt == 0

\* the call of fetch_with_retry: its locals are fresh
CallFetchWithRetry ==
    /\ retry_pc' = "send"
    /\ attempt' = FreshAttempt
    /\ retry_sleeps' = <<>>
    /\ retry_statuses' = <<>>
    /\ retry_bodies' = <<>>
    /\ retry_headers' = <<>>
    /\ retry_result' = NoResult
    /\ ss_log' = Append(ss_log, CallEvent)
    /\ ss_pc' = "await"

\* fetch_with_retry has returned: its locals are gone
RetryReturned ==
    /\ retry_pc' = "idle"
    /\ attempt' = 0
    /\ retry_sleeps' = <<>>
    /\ retry_statuses' = <<>>
    /\ retry_bodies' = <<>>
    /\ retry_headers' = <<>>
    /\ retry_result' = NoResult
    /\ last_retries' = Len(retry_sleeps)

\* variant: on an error the papers of the earlier pages are returned
ScholarFailsWithPartial(kind) ==
    /\ ss_result' = [kind |-> "ok", contents |-> convert_and_filter(all_papers)]
    /\ ss_pc' = "done"

\* `?` on an Err: the function returns the error, its locals are dropped
ScholarFails(kind) ==
    /\ ss_result' = [kind |-> kind, contents |-> <<>>]
    /\ ss_pc' = "done"

\* lines 210-217: truncate, convert_and_filter, Ok
SearchReturns(papers) ==
    /\ all_papers' = Truncate(papers, ss_config.max_results)
    /\ ss_result' = [kind |-> "ok", contents |->
                        convert_and_filter(Truncate(papers, ss_config.max_results))]
    /\ ss_pc' = "done"

\* variant: the loop goes on whatever the offset
SearchContinuesAnyOffset == Len(all_papers) < ss_config.max_results

\* line 161: the condition of the while
SearchContinues ==
    /\ Len(all_papers) < ss_config.max_results
    /\ offset < MAX_OFFSET

\* variant: an empty page does not end the loop
PageIsEmptyIgnored(data) == FALSE

\* line 189: `search_result.data.is_empty()`
PageIsEmpty(data) == data = <<>>

\* the head of the loop: another call, or the end of the loop
SearchLoop ==
    /\ ss_pc = "loop"
    /\ IF SearchContinues
       THEN /\ CallFetchWithRetry
            /\ UNCHANGED <<all_papers, ss_result>>
       ELSE /\ SearchReturns(all_papers)
            /\ UNCHANGED <<retry_vars, ss_log>>
    /\ UNCHANGED <<ss_config, offset, ss_received, last_retries>>
    /\ ScholarFrame

\* from the return of fetch_with_retry to the end of the iteration
SearchResume(data, next, parse_ok) ==
    /\ ss_pc = "await"
    /\ ss_config.mode = "search"
    /\ retry_pc = "done"
    /\ RetryReturned
    /\ IF retry_result.kind # "response"
       THEN /\ ScholarFails(retry_result.kind)
            /\ UNCHANGED <<all_papers, offset, ss_received, ss_log>>
       ELSE IF ~parse_ok
       THEN /\ ScholarFails("parse_failed")
            /\ UNCHANGED <<all_papers, offset, ss_received, ss_log>>
       ELSE LET papers == Stamp(data, Len(ss_received))
                acc == all_papers \o papers
            IN  /\ ss_received' = ss_received \o papers
                /\ IF PageIsEmpty(data)
                   THEN /\ SearchReturns(all_papers)
                        /\ ss_log' = Append(ss_log, PageEvent(data, next))
                        /\ UNCHANGED offset
                   ELSE IF next = None
                   THEN /\ SearchReturns(acc)
                        /\ ss_log' = Append(ss_log, PageEvent(data, next))
                        /\ UNCHANGED offset
                   ELSE /\ all_papers' = acc
                        /\ offset' = AsUsize(next[1])
                        /\ UNCHANGED ss_result
                        /\ IF Len(acc) < ss_config.max_results
                           THEN /\ ss_log' = ss_log \o
                                       <<PageEvent(data, next), ScholarSleepEvent>>
                                /\ ss_pc' = "sleep"
                           ELSE /\ ss_log' = Append(ss_log, PageEvent(data, next))
                                /\ ss_pc' = "loop"
    /\ UNCHANGED ss_config
    /\ ScholarFrame

\* the sleep of line 205 ends
SearchWake ==
    /\ ss_pc = "sleep"
    /\ ss_pc' = "loop"
    /\ UNCHANGED <<ss_config, all_papers, offset, ss_received, ss_log,
                   last_retries, ss_result>>
    /\ UNCHANGED retry_vars
    /\ ScholarFrame

\* variant: every recommended paper is kept
RecommendedKeptAll(papers) == papers

\* line 238: `papers.truncate(self.config.max_results)`
RecommendedKept(papers) == Truncate(papers, ss_config.max_results)

\* lines 222-229: the one call of fetch_with_retry
RecommendationsCall ==
    /\ ss_pc = "call"
    /\ CallFetchWithRetry
    /\ UNCHANGED <<ss_config, all_papers, offset, ss_received, last_retries,
                   ss_result>>
    /\ ScholarFrame

\* lines 229-239
RecommendationsResume(data, parse_ok) ==
    /\ ss_pc = "await"
    /\ ss_config.mode = "recommendations"
    /\ retry_pc = "done"
    /\ RetryReturned
    /\ IF retry_result.kind # "response"
       THEN /\ ScholarFails(retry_result.kind)
            /\ UNCHANGED <<all_papers, ss_received, ss_log>>
       ELSE IF ~parse_ok
       THEN /\ ScholarFails("parse_failed")
            /\ UNCHANGED <<all_papers, ss_received, ss_log>>
       ELSE LET papers == Stamp(data, 0)
            IN  /\ ss_received' = papers
                /\ all_papers' = RecommendedKept(papers)
                /\ ss_result' = [kind |-> "ok", contents |->
                                    convert_and_filter(RecommendedKept(papers))]
                /\ ss_log' = Append(ss_log, PageEvent(data, None))
                /\ ss_pc' = "done"
    /\ UNCHANGED <<ss_config, offset>>
    /\ ScholarFrame

\* lines 306-313: fetch dispatches on the mode
InitScholar ==
    /\ OrchIdle
    /\ RetryIdle
    /\ RedditIdle
    /\ AuxIdle
    /\ ss_config \in ScholarConfigs
    /\ ss_pc = (IF ss_config.mode = "search" THEN "loop" ELSE "call")
    /\ all_papers = <<>>
    /\ offset = 0
    /\ ss_received = <<>>
    /\ ss_log = <<>>
    /\ last_retries = 0
    /\ ss_result = NoPapers

\* what the API answers to one request
ScholarAnswers ==
    \/ RetrySendFails
    \/ RetrySend(200, NoHeader, "")
    \/ RetrySend(429, NoHeader, "")
    \/ RetrySend(404, NoHeader, "bad request")

NextScholar ==
    \/ SearchLoop
    \/ \E data \in ResponsePapers : \E next \in NextOffsets :
          SearchResume(data, next, TRUE)
    \/ SearchResume(<<>>, None, FALSE)
    \/ SearchWake
    \/ RecommendationsCall
    \/ \E data \in ResponsePapers : RecommendationsResume(data, TRUE)
    \/ RecommendationsResume(<<>>, FALSE)
    \/ ScholarAnswers
    \/ RetryWake

SpecScholar == InitScholar /\ [][NextScholar]_vars

\* a search on its own; what the loop does depends on the number of papers
\* of a page and on its next offset, so the pages carry papers of one kind
InitSearch ==
    /\ InitScholar
    /\ ss_config.mode = "search"

SearchPages ==
    {[k \in 1..n |-> [title |-> Some(<<"R">>), abstract_text |-> Some(<<"s">>),
                      citation_count |-> Some(20)]] : n \in 0..MaxResponsePapers}

NextSearch ==
    \/ SearchLoop
    \/ \E data \in SearchPages : \E next \in NextOffsets :
          SearchResume(data, next, TRUE)
    \/ SearchResume(<<>>, None, FALSE)
    \/ SearchWake
    \/ ScholarAnswers
    \/ RetryWake

\* every request is answered or fails (the client has a timeout of 30 s,
\* main.rs 76) and every sleep ends
SpecSearchFair == InitSearch /\ [][NextSearch]_vars /\ WF_vars(NextSearch)

\* a search that may ask for more than one full page: max_results up to
\* one more than API_PAGE_SIZE, the first MaxSearchCalls calls followed
InitSearchPages ==
    /\ OrchIdle
    /\ RetryIdle
    /\ RedditIdle
    /\ AuxIdle
    /\ ss_config \in
           [mode : {"search"},
            max_results : 1..MaxResults \cup {API_PAGE_SIZE, API_PAGE_SIZE + 1},
            min_citations : {0}, rate_limit_delay_ms : {1000}]
    /\ ss_pc = "loop"
    /\ all_papers = <<>>
    /\ offset = 0
    /\ ss_received = <<>>
    /\ ss_log = <<>>
    /\ last_retries = 0
    /\ ss_result = NoPapers

NextSearchPages ==
    \/ Cardinality(ScholarCalls) < MaxSearchCalls /\ SearchLoop
    \/ \E data \in SearchPages : \E next \in NextOffsets :
          SearchResume(data, next, TRUE)
    \/ SearchResume(<<>>, None, FALSE)
    \/ SearchWake
    \/ ScholarAnswers
    \/ RetryWake

SpecSearchPages == InitSearchPages /\ [][NextSearchPages]_vars

\* C40: every call of a search asks for a page of at least 1 and at most 100
\* papers and of no more than the papers still missing; at every call the
\* accumulated count is under max_results, so `max_results - len` is never
\* computed below 1.
C40_PageLimitInRange ==
    ss_config.mode = "search" =>
        \A k \in ScholarCalls :
            /\ ss_log[k].count < ss_config.max_results
            /\ ss_log[k].limit >= 1
            /\ ss_log[k].limit <= 100
            /\ ss_log[k].limit <= ss_config.max_results - ss_log[k].count
            /\ ss_log[k].limit < ss_config.max_results - ss_log[k].count
                   => ss_log[k].limit = 100

\* max_results 101: one paper is missing a full page after the first page
\* brought one paper, and 99 are missing after the second
C40_Witness ==
    /\ ss_config.max_results = 101
    /\ Cardinality(ScholarCalls) = 3
    /\ \E k \in ScholarCalls : ss_log[k].count = 0 /\ ss_log[k].limit = 100
    /\ \E k \in ScholarCalls : ss_log[k].count = 1 /\ ss_log[k].limit = 100
    /\ \E k \in ScholarCalls : ss_log[k].count = 2 /\ ss_log[k].limit = 99

\* the page that came before the call at position k of the log
PageBefore(k) == IF ss_log[k - 1].ev = "page" THEN k - 1 ELSE k - 2

\* C18: in search mode every call is made with the accumulated count under
\* max_results and the offset under the ceiling of 10,000, every call after
\* the first follows a page that was not empty and carried a next offset,
\* and the list returned never has more than max_results items.
C18_SearchPagesOnlyWhileNeeded ==
    ss_config.mode = "search" =>
        /\ \A k \in ScholarCalls :
               /\ ss_log[k].count < ss_config.max_results
               /\ ss_log[k].offset < 10000
               /\ k > 1 =>
                      /\ PageBefore(k) >= 1
                      /\ ss_log[PageBefore(k)].ev = "page"
                      /\ ss_log[PageBefore(k)].size > 0
                      /\ ss_log[PageBefore(k)].next # None
        /\ Len(ss_result.contents) <= ss_config.max_results

\* two pages: one paper with a next offset, then more papers than asked for
C18_Witness ==
    /\ ss_config.mode = "search"
    /\ ss_config.max_results = 2
    /\ ss_pc = "done"
    /\ ss_result.kind = "ok"
    /\ Cardinality(ScholarCalls) = 2
    /\ ss_log[4].ev = "call"
    /\ ss_log[4].offset = 9999
    /\ Len(ss_received) = 4
    /\ Len(ss_result.contents) = 2

\* C19: in recommendations mode fetch_with_retry is called once, whatever
\* comes back, and an Ok result is convert_and_filter of the first
\* max_results recommended papers: never more than max_results items.
C19_OneCallFirstMaxResults ==
    ss_config.mode = "recommendations" =>
        /\ Cardinality(ScholarCalls) = (IF ss_pc = "call" THEN 0 ELSE 1)
        /\ (ss_pc = "done" /\ ss_result.kind = "ok") =>
               /\ ss_result.contents =
                      convert_and_filter(SubSeq(ss_received, 1,
                          Min2(Len(ss_received), ss_config.max_results)))
               /\ Len(ss_result.contents) <= ss_config.max_results

\* three recommended papers that pass the filters, max_results 2
C19_Witness ==
    /\ ss_config.mode = "recommendations"
    /\ ss_config.max_results = 2
    /\ ss_pc = "done"
    /\ ss_result.kind = "ok"
    /\ Len(ss_received) = 3
    /\ \A k \in 1..3 : ss_received[k].citation_count = Some(20)
                         /\ ss_received[k].title # None
    /\ Len(ss_result.contents) = 2
    /\ Cardinality(ScholarCalls) = 1

\* C31: in search mode every call of fetch_with_retry starts with attempt 0,
\* whatever the earlier pages cost: during every call the counter is the
\* number of sleeps of this call, the backoff delays of the call are 1000,
\* 2000, 4000 ms from its first retry on, and the call gives up with the
\* rate-limit error only at its own fourth answer.
C31_FreshRetryBudgetPerPage ==
    (ss_config.mode = "search" /\ ss_pc = "await") =>
        /\ retry_statuses = <<>> => attempt = 0
        /\ attempt = Len(retry_sleeps) - (IF retry_pc = "sleep" THEN 1 ELSE 0)
        /\ \A k \in 1..Len(retry_sleeps) :
               retry_sleeps[k] = <<1000, 2000, 4000>>[k]
        /\ (retry_pc = "done" /\ retry_result.kind = "rate_limited") =>
               Len(retry_statuses) = 4

\* the first page cost three retries; the call for the second page is in
\* the sleep of its third retry, its first sleep having been 1000 ms
C31_Witness ==
    /\ ss_config.mode = "search"
    /\ ss_pc = "await"
    /\ Cardinality(ScholarCalls) = 2
    /\ last_retries = 3
    /\ retry_statuses = <<429, 429, 429>>
    /\ retry_sleeps = <<1000, 2000, 4000>>
    /\ attempt = 2
    /\ retry_pc = "sleep"

\* C32: a search makes at most max_results calls of fetch_with_retry, and
\* it ends, whatever the API answers, also when the next offset it sends
\* never advances.
C32_SearchTerminates ==
    /\ [](ss_config.mode = "search" =>
             Cardinality(ScholarCalls) <= ss_config.max_results)
    /\ (ss_config.mode = "search" => <>(ss_pc = "done"))

\* two pages of one paper each, both with the next offset 9999: the second
\* call is made at the offset of the first page's answer, and the search
\* ends after max_results = 2 calls
C32_Witness ==
    /\ ss_config.mode = "search"
    /\ ss_config.max_results = 2
    /\ ss_pc = "done"
    /\ ss_result.kind = "ok"
    /\ Cardinality(ScholarCalls) = 2
    /\ Len(ss_received) = 2
    /\ \A k \in 1..Len(ss_log) :
           ss_log[k].ev = "page" => ss_log[k].next = Some(9999)

\* C39 as stated: in search mode a sleep between pages is always followed
\* by another call: a sleep that is not the last event of the log is
\* followed by a call, and the search that has ended did not sleep last.
C39_SleepFollowedByRequest ==
    ss_config.mode = "search" =>
        \A k \in 1..Len(ss_log) :
            ss_log[k].ev = "sleep" =>
                IF k < Len(ss_log)
                THEN ss_log[k + 1].ev = "call"
                ELSE ss_pc \in {"sleep", "loop"} /\ SearchContinues

(***************************************************************************)
(* The keyword filter run over a list on its own                           *)
(***************************************************************************)
FilterFrame ==
    UNCHANGED <<orch_vars, retry_vars, reddit_vars, ss_vars, conc_vars,
                file_vars, validate_vars, mapping_vars>>

\* the keyword filter is run over the list
Retain ==
    /\ Len(retained) >= 1
    /\ Len(retained) <= MaxRetains
    /\ fetch_contents' = retain(fetch_contents)
    /\ retained' = Append(retained, retain(fetch_contents))
    /\ UNCHANGED <<keywords, match_mode>>
    /\ FilterFrame

ItemShapes == [title : TitleTexts, body : BodyTexts]
FilterItemLists == UNION {[1..n -> ItemShapes] : n \in 0..MaxItems}
KeywordLists == UNION {[1..n -> KeywordTexts] : n \in 0..MaxKeywords}

\* the id of an item is its position in the list
StampItems(shapes) ==
    [k \in 1..Len(shapes) |->
        [id |-> k, title |-> shapes[k].title, body |-> shapes[k].body]]

InitFilter ==
    /\ OrchIdle
    /\ RetryIdle
    /\ RedditIdle
    /\ ScholarIdle
    /\ ConcIdle
    /\ FileIdle
    /\ ValidateIdle
    /\ MappingIdle
    /\ keywords \in KeywordLists
    /\ match_mode \in MatchModes
    /\ \E shapes \in FilterItemLists : fetch_contents = StampItems(shapes)
    /\ retained = <<fetch_contents>>

NextFilter == Retain

SpecFilter == InitFilter /\ [][NextFilter]_vars

\* the keywords found, case-folded, in the case-folded title, sep and body
KeywordsFound(content, sep) ==
    {k \in 1..Len(keywords) :
        contains(to_lowercase(content.title \o sep \o content.body),
                 to_lowercase(keywords[k]))}

ExpectedMatch(content, sep) ==
    IF match_mode = "any"
    THEN KeywordsFound(content, sep) # {}
    ELSE KeywordsFound(content, sep) = 1..Len(keywords)

Ids(list) == {list[k].id : k \in 1..Len(list)}

\* C21 as stated: with a non-empty keyword set an item is kept exactly when
\* at least one (any) or every (all) case-folded keyword is a substring of
\* the case-folded concatenation of its title and its body.
C21_Original_TitleBodyConcatenation ==
    (Len(retained) >= 2 /\ keywords # <<>>) =>
        Ids(retained[2]) =
            {i \in 1..Len(retained[1]) : ExpectedMatch(retained[1][i], <<>>)}

\* C21: with a non-empty keyword set an item is kept exactly when at least
\* one (any) or every (all) case-folded keyword is a substring of the
\* case-folded text made of its title, one space and its body.
C21_TitleSpaceBody ==
    (Len(retained) >= 2 /\ keywords # <<>>) =>
        Ids(retained[2]) =
            {i \in 1..Len(retained[1]) : ExpectedMatch(retained[1][i], <<" ">>)}

\* title "R", body "s": the keyword "rs" is not found across the space, the
\* keyword "r s" is
C21_Witness ==
    /\ Len(retained) >= 2
    /\ match_mode = "any"
    /\ keywords = <<<<"r", "s">>>>
    /\ Len(retained[1]) = 2
    /\ retained[1][1].title = <<"R">>
    /\ retained[1][1].body = <<"s">>
    /\ retained[1][2].title = <<"R">>
    /\ retained[2] = <<>>

C36_EmptyKeywordsKeepAll ==
    keywords = <<>> =>
        /\ \A i \in 1..Len(retained[1]) : matches(retained[1][i])
        /\ \A n \in 1..Len(retained) : retained[n] = retained[1]
        /\ fetch_contents = retained[1]

\* two items, no keywords, mode any: both are kept
C36_Witness ==
    /\ keywords = <<>>
    /\ match_mode = "any"
    /\ Len(retained) >= 2
    /\ Len(retained[1]) = 2
    /\ retained[1][1].title # retained[1][2].title
    /\ retained[2] = retained[1]

(***************************************************************************)
(* Source::fetch of the two adapters: the fetch of the mode, then retain   *)
(* (source/reddit.rs, 203-211; source/semantic_scholar.rs, 303-324)        *)
(***************************************************************************)
\* RedditClient::fetch after fetch_posts returned Ok: retain, Ok(contents).
\* An Err has left fetch through `?`.
RedditFetchReturn ==
    /\ reddit_pc = "done"
    /\ reddit_result.kind = "ok"
    /\ reddit_pc' = "returned"
    /\ fetch_contents' = retain(all_contents)
    /\ retained' = <<all_contents, retain(all_contents)>>
    /\ UNCHANGED <<keywords, match_mode>>
    /\ UNCHANGED <<reddit_config, all_contents, after, served, provided,
                   listing, page_size, reddit_log, reddit_result>>
    /\ UNCHANGED <<orch_vars, retry_vars, ss_vars, conc_vars, file_vars,
                   validate_vars, mapping_vars>>

\* SemanticScholarClient::fetch after the fetch of the mode returned Ok
ScholarFetchReturn ==
    /\ ss_pc = "done"
    /\ ss_result.kind = "ok"
    /\ ss_pc' = "returned"
    /\ fetch_contents' = retain(ss_result.contents)
    /\ retained' = <<ss_result.contents, retain(ss_result.contents)>>
    /\ UNCHANGED <<keywords, match_mode>>
    /\ UNCHANGED <<ss_config, all_papers, offset, ss_received, ss_log,
                   last_retries, ss_result>>
    /\ UNCHANGED <<orch_vars, retry_vars, reddit_vars, conc_vars, file_vars,
                   validate_vars, mapping_vars>>

\* the filters a fetch is called with
FetchFilters ==
    {<<<<>>, "any">>,
     <<<<<<"r">>>>, "any">>,
     <<<<<<"r">>, <<"S">>>>, "all">>}

\* the posts of a page: with or without the keyword, high or low score
FetchPostKinds ==
    {p \in PostShapes : /\ p.num_comments = 5
                        /\ p.selftext = <<>>
                        /\ p.title \in {<<>>, <<"R">>}
                        /\ (p.score = 0 => p.title = <<"R">>)}

FetchPages == UNION {[1..n -> FetchPostKinds] : n \in 0..MaxPageLen}

InitFetchFilters ==
    /\ \E f \in FetchFilters : keywords = f[1] /\ match_mode = f[2]
    /\ fetch_contents = <<>>
    /\ retained = <<>>

InitFetch ==
    /\ OrchIdle
    /\ RetryIdle
    /\ InitFetchFilters
    /\ ConcIdle
    /\ FileIdle
    /\ ValidateIdle
    /\ MappingIdle
    /\ \/ /\ reddit_pc = "request"
          /\ reddit_config \in {c \in RedditConfigs : c.min_comments = 0}
          /\ all_contents = <<>>
          /\ after = 0
          /\ served = 0
          /\ provided = <<>>
          /\ listing = <<>>
          /\ page_size = 1
          /\ reddit_log = <<>>
          /\ reddit_result = NoResult
          /\ ScholarIdle
       \/ /\ RedditIdle
          /\ ss_config \in {c \in ScholarConfigs : c.min_citations = 10}
          /\ ss_pc = (IF ss_config.mode = "search" THEN "loop" ELSE "call")
          /\ all_papers = <<>>
          /\ offset = 0
          /\ ss_received = <<>>
          /\ ss_log = <<>>
          /\ last_retries = 0
          /\ ss_result = NoPapers

RedditFetchResponse ==
    \/ RedditSendFails
    \/ RedditRequest(429, <<>>, 0, TRUE)
    \/ RedditRequest(200, <<>>, 0, FALSE)
    \/ \E children \in FetchPages : \E next_after \in {0, FreshToken} :
          RedditRequest(200, children, next_after, TRUE)

NextFetch ==
    \/ RequestBudget /\ RedditFetchResponse
    \/ RedditWake
    \/ RedditFetchReturn
    \/ NextScholar
    \/ ScholarFetchReturn

SpecFetch == InitFetch /\ [][NextFetch]_vars

\* the first n items of a list
FirstN(list, n) == SubSeq(list, 1, Min2(Len(list), n))

\* C23: the keyword filter is consulted once, after the last request of the
\* fetch: until then nothing has been filtered by keyword, and the list the
\* fetch returns is the keyword-matching items, in order, of the list
\* accumulated by pagination, numeric filtering and truncation, which is the
\* same whatever the keywords are.
C23_KeywordFilterLast ==
    /\ reddit_pc \in {"request", "sleep", "done"} => retained = <<>>
    /\ ss_pc \in {"loop", "call", "await", "sleep", "done"} => retained = <<>>
    /\ reddit_pc = "returned" =>
           LET accumulated ==
                   FirstN(SelectSeq(provided, MeetsFloors), reddit_config.limit)
           IN  /\ all_contents = accumulated
               /\ retained = <<accumulated, SelectSeq(accumulated, matches)>>
               /\ fetch_contents = SelectSeq(accumulated, matches)
    /\ ss_pc = "returned" =>
           LET accumulated ==
                   convert_and_filter(FirstN(ss_received, ss_config.max_results))
           IN  /\ ss_result.contents = accumulated
               /\ retained = <<accumulated, SelectSeq(accumulated, matches)>>
               /\ fetch_contents = SelectSeq(accumulated, matches)

\* limit 1: the first post lacks the keyword, the second has it; the fetch
\* stops at the first and returns nothing
C23_Witness ==
    /\ reddit_pc = "returned"
    /\ reddit_config.limit = 1
    /\ keywords = <<<<"r">>>>
    /\ Len(provided) = 2
    /\ provided[1].title = <<>>
    /\ provided[2].title = <<"R">>
    /\ provided[2].score >= reddit_config.min_score
    /\ Len(all_contents) = 1
    /\ fetch_contents = <<>>
    /\ Cardinality(RedditRequests) = 1

\* C33: once a page request of a fetch has ended in a fatal error (the last
\* Reddit request brought no page; the last call of fetch_with_retry was
\* not followed by a page), the fetch has returned that error and nothing
\* else: no list of items, whatever the earlier pages had accumulated.
C33_ErrorDiscardsAccumulated ==
    /\ (reddit_log # <<>> /\ reddit_log[Len(reddit_log)].ev = "request"
            /\ ~reddit_log[Len(reddit_log)].ok) =>
           /\ reddit_pc = "done"
           /\ reddit_result.kind \in {"send_failed", "rate_limited",
                                      "api_error", "parse_failed"}
           /\ fetch_contents = <<>>
           /\ retained = <<>>
    /\ (ss_pc \in {"done", "returned"} /\ ss_log # <<>>
            /\ ss_log[Len(ss_log)].ev = "call") =>
           /\ ss_pc = "done"
           /\ ss_result.kind \notin {"ok", "none"}
           /\ ss_result.contents = <<>>
           /\ fetch_contents = <<>>
           /\ retained = <<>>

\* a search whose first page brought a paper that passes the filters and
\* whose second call ended with a 404
C33_Witness ==
    /\ ss_config.mode = "search"
    /\ ss_pc = "done"
    /\ ss_result.kind = "client_error"
    /\ Cardinality(ScholarCalls) = 2
    /\ all_papers # <<>>
    /\ convert_and_filter(all_papers) # <<>>
    /\ ss_result.contents = <<>>

(***************************************************************************)
(* main, lines 108-116: the fetches of two Reddit sources polled together  *)
(* by buffered(); each runs RedditClient::fetch on its own locals          *)
(***************************************************************************)
ConcPostKinds ==
    {p \in PostShapes : /\ p.num_comments = 5
                        /\ p.selftext = <<>>
                        /\ p.title = <<"R">>}

ConcPages == {<<>>} \cup {<<p>> : p \in ConcPostKinds}
                 \cup {<<p, q>> : p \in ConcPostKinds, q \in ConcPostKinds}

\* the Content of the posts of a page of fetch i
ConcToContents(i, children) ==
    [k \in 1..Len(children) |->
        [id |-> Len(c_provided[i]) + k, source_id |-> i,
         title |-> children[k].title, body |-> children[k].selftext,
         score |-> children[k].score,
         num_comments |-> children[k].num_comments]]

\* apply_config_filters of fetch i
ConcApplyConfigFilters(i, list) ==
    LET Passes(content) == content.score >= c_config[i].min_score
    IN  SelectSeq(list, Passes)

\* variant: there is one accumulator, that of the first fetch
all_contentsOfFirst(i) == c_contents[1]

\* the `all_contents` of fetch i
all_contentsOf(i) == c_contents[i]

ConcFrame ==
    UNCHANGED <<orch_vars, retry_vars, reddit_vars, ss_vars, filter_vars,
                file_vars, validate_vars, mapping_vars>>

ConcReturn(i, kind, items) ==
    /\ c_result' = [c_result EXCEPT ![i] = [kind |-> kind, items |-> items]]
    /\ c_pc' = [c_pc EXCEPT ![i] = "done"]

\* one iteration of the loop of fetch i, and the retain of fetch when the
\* loop ends
ConcRequest(i, code, children, next_after) ==
    /\ c_pc[i] = "request"
    /\ c_requests[i] < MaxConcRequests
    /\ c_requests' = [c_requests EXCEPT ![i] = @ + 1]
    /\ IF code # 200
       THEN /\ ConcReturn(i, "rate_limited", <<>>)
            /\ UNCHANGED <<c_contents, c_after, c_provided>>
       ELSE LET page == ConcToContents(i, children)
                acc == all_contentsOf(i) \o ConcApplyConfigFilters(i, page)
            IN  /\ c_provided' = [c_provided EXCEPT ![i] = @ \o page]
                /\ IF Len(acc) >= c_config[i].limit
                   THEN /\ c_contents' = [c_contents EXCEPT ![i] =
                                             Truncate(acc, c_config[i].limit)]
                        /\ ConcReturn(i, "ok",
                               retain(Truncate(acc, c_config[i].limit)))
                        /\ UNCHANGED c_after
                   ELSE IF next_after # 0
                   THEN /\ c_contents' = [c_contents EXCEPT ![i] = acc]
                        /\ c_after' = [c_after EXCEPT ![i] = next_after]
                        /\ c_pc' = [c_pc EXCEPT ![i] = "sleep"]
                        /\ UNCHANGED c_result
                   ELSE /\ c_contents' = [c_contents EXCEPT ![i] = acc]
                        /\ ConcReturn(i, "ok", retain(acc))
                        /\ UNCHANGED c_after
    /\ UNCHANGED c_config
    /\ ConcFrame

\* the sleep of fetch i ends
ConcWake(i) ==
    /\ c_pc[i] = "sleep"
    /\ c_pc' = [c_pc EXCEPT ![i] = "request"]
    /\ UNCHANGED <<c_config, c_contents, c_after, c_provided, c_requests,
                   c_result>>
    /\ ConcFrame

InitConcurrent ==
    /\ OrchIdle
    /\ RetryIdle
    /\ RedditIdle
    /\ ScholarIdle
    /\ FileIdle
    /\ ValidateIdle
    /\ MappingIdle
    /\ \E f \in FetchFilters : keywords = f[1] /\ match_mode = f[2]
    /\ fetch_contents = <<>>
    /\ retained = <<>>
    /\ c_pc = [i \in Fetchers |-> "request"]
    /\ c_config \in [Fetchers -> [limit : {1, 2}, min_score : Floors]]
    /\ c_contents = [i \in Fetchers |-> <<>>]
    /\ c_after = [i \in Fetchers |-> 0]
    /\ c_provided = [i \in Fetchers |-> <<>>]
    /\ c_requests = [i \in Fetchers |-> 0]
    /\ c_result = [i \in Fetchers |-> [kind |-> "none", items |-> <<>>]]

NextConcurrent ==
    \E i \in Fetchers :
        \/ ConcRequest(i, 429, <<>>, 0)
        \/ \E children \in ConcPages : \E next_after \in {0, c_requests[i] + 1} :
              ConcRequest(i, 200, children, next_after)
        \/ ConcWake(i)

SpecConcurrent == InitConcurrent /\ [][NextConcurrent]_vars

\* what fetch i has accumulated, from its own configuration and the posts of
\* its own provider
OwnAccumulated(i) ==
    LET Passes(content) == content.score >= c_config[i].min_score
    IN  FirstN(SelectSeq(c_provided[i], Passes), c_config[i].limit)

\* C24: at every point of every interleaving the accumulator of a fetch is
\* made of the posts of its own provider under its own configuration, and an
\* Ok result is the keyword-matching items of it: nothing of the other fetch
\* enters.
C24_FetchDependsOnOwnInputs ==
    \A i \in Fetchers :
        /\ c_contents[i] = OwnAccumulated(i)
        /\ \A k \in 1..Len(c_contents[i]) : c_contents[i][k].source_id = i
        /\ (c_pc[i] = "done" /\ c_result[i].kind = "ok") =>
               c_result[i].items = SelectSeq(OwnAccumulated(i), matches)
        /\ (c_pc[i] = "done" /\ c_result[i].kind # "ok") =>
               c_result[i].items = <<>>

\* the second fetch has returned two items while the first, with one item
\* of its own, sleeps between two pages
C24_Witness ==
    /\ c_pc[1] = "sleep"
    /\ Len(c_contents[1]) = 1
    /\ c_config[1].limit = 2
    /\ c_pc[2] = "done"
    /\ c_result[2].kind = "ok"
    /\ Len(c_result[2].items) = 2
    /\ c_requests[2] = 2
    /\ Len(c_provided[2]) = 3

(***************************************************************************)
(* output::write_to_file (output.rs, 41-71)                                *)
(***************************************************************************)
\* the destinations drawn: a bare file name, a file in a directory, and the
\* empty path, to which nothing can be renamed
Paths == {"out.json", "dir/out.json", ""}

\* Path::parent: None for the empty path, Some("") for a bare file name
parent(path) ==
    CASE path = "out.json" -> Some("")
      [] path = "dir/out.json" -> Some("dir")
      [] OTHER -> None

\* lines 45-48: .filter(|p| !p.as_os_str().is_empty()).unwrap_or(".")
parent_dir(path) ==
    IF parent(path) = None \/ parent(path) = Some("") THEN "." ELSE parent(path)[1]

\* the directory the file at `path` lies in
DirectoryOf(path) ==
    CASE path = "out.json" -> "."
      [] path = "dir/out.json" -> "dir"
      [] OTHER -> "none"

JsonTexts == UNION {[1..n -> {"a", "b"}] : n \in 1..MaxJsonLen}

WriteFrame ==
    UNCHANGED <<orch_vars, retry_vars, reddit_vars, ss_vars, filter_vars,
                conc_vars, validate_vars, mapping_vars>>

\* an Err leaves through `?`: the NamedTempFile is dropped, which removes it
WriteFails(step) ==
    /\ temp_file' = NoTemp
    /\ w_result' = step
    /\ w_pc' = "done"
    /\ UNCHANGED <<w_path, w_json, dest, dest_before, renamed_from>>
    /\ WriteFrame

\* lines 51-52: NamedTempFile::new_in(parent_dir)
CreateTemp(ok) ==
    /\ w_pc = "create"
    /\ IF ok
       THEN /\ temp_file' = [dir |-> parent_dir(w_path), data |-> <<>>,
                             synced |-> FALSE, exists |-> TRUE]
            /\ w_pc' = "write"
            /\ UNCHANGED <<w_path, w_json, dest, dest_before, renamed_from,
                           w_result>>
            /\ WriteFrame
       ELSE WriteFails("Failed to create temporary file")

\* variant: the bytes are written to the file at `path`
write_allIntoDestination(data) ==
    /\ dest' = data
    /\ UNCHANGED temp_file

\* the file write_all writes to: the temporary file
write_allIntoTemp(data) ==
    /\ temp_file' = [temp_file EXCEPT !.data = data]
    /\ UNCHANGED dest

\* lines 55-57: write_all writes the bytes in one or more writes, and fails
\* at the first write that fails
WriteAll(n, ok) ==
    /\ w_pc = "write"
    /\ n \in 1..(Len(w_json) - Len(temp_file.data))
    /\ IF ok
       THEN /\ write_allIntoTemp(SubSeq(w_json, 1, Len(temp_file.data) + n))
            /\ w_pc' = (IF Len(temp_file.data) + n = Len(w_json)
                        THEN "sync" ELSE "write")
            /\ UNCHANGED <<w_path, w_json, dest_before, renamed_from, w_result>>
            /\ WriteFrame
       ELSE WriteFails("Failed to write JSON to temporary file")

\* lines 59-62: sync_all
SyncAll(ok) ==
    /\ w_pc = "sync"
    /\ IF ok
       THEN /\ temp_file' = [temp_file EXCEPT !.synced = TRUE]
            /\ w_pc' = "persist"
            /\ UNCHANGED <<w_path, w_json, dest, dest_before, renamed_from,
                           w_result>>
            /\ WriteFrame
       ELSE WriteFails("Failed to sync temporary file to disk")

\* lines 66-68: persist renames the temporary file to `path`; the rename
\* replaces the file there in one step or fails and leaves it
Persist(ok) ==
    /\ w_pc = "persist"
    /\ IF ok /\ DirectoryOf(w_path) # "none"
       THEN /\ dest' = temp_file.data
            /\ renamed_from' = temp_file
            /\ temp_file' = NoTemp
            /\ w_result' = "ok"
            /\ w_pc' = "done"
            /\ UNCHANGED <<w_path, w_json, dest_before>>
            /\ WriteFrame
       ELSE WriteFails("Failed to persist file")

InitWrite ==
    /\ OrchIdle
    /\ RetryIdle
    /\ RedditIdle
    /\ ScholarIdle
    /\ FilterIdle
    /\ ConcIdle
    /\ ValidateIdle
    /\ MappingIdle
    /\ w_pc = "create"
    /\ w_path \in Paths
    /\ w_json \in JsonTexts
    /\ dest \in (IF DirectoryOf(w_path) = "none"
                 THEN {Absent}
                 ELSE {Absent, <<"o", "l", "d">>, <<"a">>})
    /\ dest_before = dest
    /\ temp_file = NoTemp
    /\ renamed_from = NoTemp
    /\ w_result = "none"

NextWrite ==
    \/ \E ok \in BOOLEAN : CreateTemp(ok)
    \/ \E n \in 1..MaxJsonLen : \E ok \in BOOLEAN : WriteAll(n, ok)
    \/ \E ok \in BOOLEAN : SyncAll(ok)
    \/ \E ok \in BOOLEAN : Persist(ok)

SpecWrite == InitWrite /\ [][NextWrite]_vars

\* C25: the temporary file lies in the directory of the destination; the
\* destination holds its previous content until the call returns Ok and the
\* complete JSON from then on, and never anything else; what was renamed to
\* it was the temporary file with the complete JSON, synced; a call that
\* fails leaves the previous content and no temporary file.
C25_AtomicReplace ==
    /\ dest \in {dest_before, w_json}
    /\ w_result # "ok" => dest = dest_before
    /\ w_result = "ok" =>
           /\ dest = w_json
           /\ renamed_from.exists
           /\ renamed_from.data = w_json
           /\ renamed_from.synced
    /\ w_result \notin {"ok", "none"} => (~temp_file.exists /\ ~renamed_from.exists)
    /\ (temp_file.exists /\ DirectoryOf(w_path) # "none") =>
           temp_file.dir = DirectoryOf(w_path)

\* the write fails after a part of the JSON has reached the temporary file:
\* the destination still holds the old content
C25_Witness ==
    /\ w_pc = "done"
    /\ w_result = "Failed to write JSON to temporary file"
    /\ dest = <<"o", "l", "d">>
    /\ Len(w_json) = 3
    /\ ~temp_file.exists

(***************************************************************************)
(* Config::from_str, Config::validate (config.rs, 150-265) and main up to  *)
(* the building of the sources (main.rs, 36-102)                           *)
(***************************************************************************)
LogLevels == {"info", "loud"}
valid_log_levels == {"error", "warn", "info", "debug", "trace"}

Configs ==
    [user_agent : UserAgents,
     max_concurrency : 0..MaxConcurrency,
     log_level : LogLevels,
     output_destination : {"stdout"},
     sources : UNION {[1..n -> SourceEntry] : n \in 0..MaxEntries}]

\* variant: every configured source counts
enabled_countOfAll(entries) == Len(entries)

\* self.sources.iter().filter(|s| s.enabled).count()
enabled_count(entries) ==
    Cardinality({i \in 1..Len(entries) : entries[i].enabled})

ValidateFrame ==
    UNCHANGED <<orch_vars, retry_vars, reddit_vars, ss_vars, filter_vars,
                conc_vars, file_vars, mapping_vars>>

RunFails(message) ==
    /\ v_result' = message
    /\ v_pc' = "done"
    /\ UNCHANGED <<v_config, v_idx, adapters_built>>
    /\ ValidateFrame

\* validate, lines 162-187: the checks of the crawler section and of the
\* number of sources, in the order of the code
ValidateCrawler ==
    /\ v_pc = "validate"
    /\ IF v_config.user_agent = ""
       THEN RunFails("crawler.user_agent cannot be empty")
       ELSE IF v_config.max_concurrency = 0
       THEN RunFails("crawler.max_concurrency must be greater than 0")
       ELSE IF v_config.log_level \notin valid_log_levels
       THEN RunFails("crawler.log_level must be one of")
       ELSE IF v_config.sources = <<>>
       THEN RunFails("At least one source must be configured")
       ELSE IF enabled_count(v_config.sources) = 0
       THEN RunFails("At least one source must be enabled")
       ELSE /\ v_pc' = "sources"
            /\ v_idx' = 0
            /\ UNCHANGED <<v_config, v_result, adapters_built>>
            /\ ValidateFrame

\* validate, lines 190-202: one iteration of the loop over every source,
\* enabled or not, and the Ok(()) after the last
ValidateSource ==
    /\ v_pc = "sources"
    /\ IF v_idx = Len(v_config.sources)
       THEN /\ v_result' = "ok"
            /\ v_pc' = "cli"
            /\ UNCHANGED <<v_config, v_idx, adapters_built>>
            /\ ValidateFrame
       ELSE IF v_config.sources[v_idx + 1].subreddit = ""
       THEN RunFails("subreddit cannot be empty")
       ELSE IF v_config.sources[v_idx + 1].user_agent = ""
       THEN RunFails("user_agent cannot be empty")
       ELSE /\ v_idx' = v_idx + 1
            /\ UNCHANGED <<v_pc, v_config, v_result, adapters_built>>
            /\ ValidateFrame

\* main.rs 42-56: the overrides of the command line
CliOverrides(output, log_level) ==
    /\ v_pc = "cli"
    /\ IF log_level # None /\ log_level[1] \notin valid_log_levels
       THEN RunFails("Invalid log level")
       ELSE /\ v_config' =
                [v_config EXCEPT
                    !.output_destination = UnwrapOr(output, @),
                    !.log_level = UnwrapOr(log_level, @)]
            /\ v_pc' = "build"
            /\ UNCHANGED <<v_idx, v_result, adapters_built>>
            /\ ValidateFrame

\* main.rs 80-102: build_source for the enabled entries in order, stopping
\* at the first that fails
BuildSources(n) ==
    /\ v_pc = "build"
    /\ n \in 0..enabled_count(v_config.sources)
    /\ adapters_built' = n
    /\ v_result' = (IF n < enabled_count(v_config.sources)
                    THEN "Failed to build sources"
                    ELSE IF n = 0 THEN "No enabled sources found in configuration"
                    ELSE "built")
    /\ v_pc' = "done"
    /\ UNCHANGED <<v_config, v_idx>>
    /\ ValidateFrame

InitValidate ==
    /\ OrchIdle
    /\ RetryIdle
    /\ RedditIdle
    /\ ScholarIdle
    /\ FilterIdle
    /\ ConcIdle
    /\ FileIdle
    /\ MappingIdle
    /\ v_pc = "validate"
    /\ v_config \in Configs
    /\ v_idx = 0
    /\ v_result = "none"
    /\ adapters_built = 0

NextValidate ==
    \/ ValidateCrawler
    \/ ValidateSource
    \/ \E output \in {None, Some("out.json")} :
          \E log_level \in {None, Some("debug"), Some("loud")} :
             CliOverrides(output, log_level)
    \/ \E n \in 0..MaxEntries : BuildSources(n)

SpecValidate == InitValidate /\ [][NextValidate]_vars

HasEnabledSource ==
    \E i \in 1..Len(v_config.sources) : v_config.sources[i].enabled

\* C27: a configuration that validation has accepted has max_concurrency of
\* at least 1 and an enabled source; with max_concurrency = 0 or without an
\* enabled source the run ends with an error of validation, and no adapter
\* is ever built.
C27_AcceptedIsRunnable ==
    /\ v_pc \in {"cli", "build"} =>
           /\ v_result = "ok"
           /\ v_config.max_concurrency >= 1
           /\ HasEnabledSource
    /\ (v_config.max_concurrency = 0 \/ ~HasEnabledSource) =>
           /\ adapters_built = 0
           /\ v_pc \in {"validate", "done"}
           /\ v_pc = "done" =>
                  v_result \in {"crawler.user_agent cannot be empty",
                                "crawler.max_concurrency must be greater than 0",
                                "crawler.log_level must be one of",
                                "At least one source must be configured",
                                "At least one source must be enabled"}
    /\ adapters_built > 0 =>
           (v_config.max_concurrency >= 1 /\ HasEnabledSource)

\* sources configured, all of them disabled: rejected, nothing built
C27_Witness ==
    /\ v_pc = "done"
    /\ v_result = "At least one source must be enabled"
    /\ Len(v_config.sources) = 2
    /\ v_config.max_concurrency = 2
    /\ adapters_built = 0

(***************************************************************************)
(* SemanticScholarClient::paper_to_content on one paper                    *)
(* (source/semantic_scholar.rs, 265-298)                                   *)
(***************************************************************************)
MappingFrame ==
    UNCHANGED <<orch_vars, retry_vars, reddit_vars, ss_vars, filter_vars,
                conc_vars, file_vars, validate_vars>>

\* Paper.year is an Option<i32>
Years == {None, Some(1970), Some(2024), Some(1969), Some(0), Some(-1),
          Some(I32_MIN + 1970), Some(I32_MIN + 1969), Some(I32_MIN),
          Some(I32_MAX)}

AuthorLists ==
    {<<>>,
     <<[name |-> None]>>,
     <<[name |-> Some("Ada")]>>,
     <<[name |-> None], [name |-> Some("Bob")]>>,
     <<[name |-> Some("Ada")], [name |-> Some("Bob")]>>}

MappedPapers ==
    [paper_id : {1}, title : {None, Some(<<"R">>)},
     abstract_text : {None, Some(<<"s">>)}, year : Years,
     citation_count : Citations, authors : AuthorLists]

\* the call of paper_to_content: `(y - 1970)` is computed in i32; where it
\* leaves the i32 range the build with overflow checks panics and the build
\* without them wraps
PaperToContent ==
    /\ m_pc = "call"
    /\ IF m_paper.year # None /\ SubOverflows(m_paper.year[1])
       THEN IF overflow_checks
            THEN /\ m_result' = "panic"
                 /\ UNCHANGED m_content
            ELSE /\ m_result' = "content"
                 /\ m_content' =
                       paper_to_content_at(m_paper,
                                           Some(WrappingSub1970(m_paper.year[1])))
       ELSE /\ m_result' = "content"
            /\ m_content' = paper_to_content(m_paper)
    /\ m_pc' = "done"
    /\ UNCHANGED <<m_paper, overflow_checks>>
    /\ MappingFrame

InitMapping ==
    /\ OrchIdle
    /\ RetryIdle
    /\ RedditIdle
    /\ ScholarIdle
    /\ FilterIdle
    /\ ConcIdle
    /\ FileIdle
    /\ ValidateIdle
    /\ m_pc = "call"
    /\ m_paper \in MappedPapers
    /\ overflow_checks \in BOOLEAN
    /\ m_result = "none"
    /\ m_content = NoContent

NextMapping == PaperToContent

SpecMapping == InitMapping /\ [][NextMapping]_vars

\* |year - 1970| in decimal digits, computed without the i32
YearsFrom1970(y) ==
    IF y >= 1970 THEN IntToDigits(y - 1970)
    ELSE IF y >= 0 THEN IntToDigits(1970 - y)
    ELSE AddSmall(Magnitude(y), 1970)

\* C28: for every paper the mapping gives created_utc = (year - 1970) *
\* 31,536,000 when a year is present and 0 when it is absent, author = the
\* name of the first listed author, or "Unknown" when there is no first
\* author or it has no name, score = the citation count (0 when absent)
\* and num_comments = 0.
C28_PaperMapping ==
    m_pc = "done" =>
        /\ m_result = "content"
        /\ m_content.created_utc =
              (IF m_paper.year = None
               THEN [neg |-> FALSE, digits |-> <<>>]
               ELSE [neg |-> m_paper.year[1] < 1970,
                     digits |-> MulSmall(YearsFrom1970(m_paper.year[1]),
                                         31536000, 0)])
        /\ m_content.author =
              (IF m_paper.authors = <<>> \/ m_paper.authors[1].name = None
               THEN "Unknown"
               ELSE m_paper.authors[1].name[1])
        /\ m_content.score =
              (IF m_paper.citation_count = None
               THEN 0 ELSE m_paper.citation_count[1])
        /\ m_content.num_comments = 0

====
